---- MODULE Spec2Model ----
(***************************************************************************)
(* The LoRa medium simulator of simulated_server.py (class                 *)
(* SimulatorServer) as a state machine: the shared registry, one session   *)
(* thread per accepted connection (_handle_client) and the dispatcher      *)
(* (_process_transmission) each session thread runs for a tx frame.        *)
(*                                                                         *)
(* Threads share the server's fields without a lock inside the dispatcher, *)
(* so the dispatcher is cut into the steps between which another thread    *)
(* can run: the load and the store of `active_transmissions += 1`, the     *)
(* target resolution, the per-target evaluation (get_drop_reason), the     *)
(* store into rx_busy_until, the sleep followed by the socket write, and   *)
(* the load and the store of `active_transmissions -= 1`.                  *)
(*                                                                         *)
(* Spec takes a register frame and the resolution of the targets as single  *)
(* steps.  SpecLock cuts both at every access to a shared table: the three  *)
(* stores a register frame makes under self.lock, and the items() iterator  *)
(* of the broadcast comprehension, which the dispatcher runs without the    *)
(* lock.  SpecInbox adds the lines a client has sent and the session has    *)
(* not read yet.                                                            *)
(*                                                                         *)
(* Signal levels are integers in tenths of a dB (SF_SENSITIVITY[11] is     *)
(* -134.5 dBm).  Locations are integer km points; distances are compared   *)
(* by their squares, which is exact for math.dist.                         *)
(***************************************************************************)
EXTENDS Integers, Sequences, FiniteSets, TLC

\* ------------------------------------------------------------ bounds
NumConns == 2        \* connections the listener accepts
MaxFrames == 4       \* frames the clients send, all connections together
MaxTime == 3         \* last value of the clock (time.time())
MaxDelay == 2        \* largest delivery delay, in clock units
MaxSignals == 2      \* interrupts the process gets

\* ------------------------------------------------------------ inputs
None == -1           \* Python's None where the other values are >= 0
NoLoc == <<>>        \* an absent location
NoDrop == "None"     \* get_drop_reason's `return None`

Conns == 1..NumConns
BROADCAST == 255
\* node ids clients put in frames: 0 (falsy in Python), an ordinary id,
\* and the broadcast id, which nothing stops a client from registering
NodeIds == {0, 1, BROADCAST}
\* the register frames clients send, <<node_id, location, frequency>>:
\* (0,0) and (18,24) are 30 km apart, and node 1 also registers at the
\* origin on another frequency
RegFrames == {<<0, <<0, 0>>, 915>>, <<1, <<18, 24>>, 915>>,
              <<1, <<0, 0>>, 868>>, <<BROADCAST, <<0, 0>>, 915>>}
\* the tx frames clients send, <<from, destination, sf, flags>>: sf 6 is not
\* a key of SF_SENSITIVITY, and 128 is the ACK bit of the flags byte
TxFrames == {<<1, 0, 6, 0>>, <<1, 0, 12, 128>>, <<0, BROADCAST, 7, 0>>}
\* tenths of dBm: below SF7's sensitivity and above SF12's; above both
RssiVals == {-1300, -1000}
\* tenths of dB: within 3 dB of SF7's minimum and well above SF12's (the
\* values around every threshold are those of VerdictSnr)
SnrVals == {-60}

\* ------------------------------------------------------------ tables
\* (a TLA+ name cannot start with SF_)
SfSensitivity ==
  [sf \in 7..12 |->
     CASE sf = 7 -> -1230 [] sf = 8 -> -1260 [] sf = 9 -> -1290
       [] sf = 10 -> -1320 [] sf = 11 -> -1345 [] sf = 12 -> -1370]

\* SF_SNR_RANGES[sf][0], the minimum SNR
SfSnrMin ==
  [sf \in 7..12 |->
     CASE sf = 7 -> -75 [] sf = 8 -> -100 [] sf = 9 -> -125
       [] sf = 10 -> -150 [] sf = 11 -> -175 [] sf = 12 -> -200]

SfMaxRangeKm ==
  [sf \in 7..12 |->
     CASE sf = 7 -> 5 [] sf = 8 -> 8 [] sf = 9 -> 12
       [] sf = 10 -> 16 [] sf = 11 -> 20 [] sf = 12 -> 25]

max_inflight_packets == 10

\* the value of should_drop's snr_prob where it is not drawn, in 1/10000:
\* 0.6 * exp(-0.693), that of a margin of 0.693 times the margin factor
SnrProb == 3000

\* SF_SNR_RANGES.get(sf, (-20, 5.0))[0] (line 677)
SnrMinOf(sf) == IF sf \in DOMAIN SfSnrMin THEN SfSnrMin[sf] ELSE -200

\* ------------------------------------------------------------ state
VARIABLES
  clients,              \* self.clients: dict node_id -> socket, in insertion order
  node_locations,       \* self.node_locations
  node_frequency,       \* self.node_frequency
  rx_busy_until,        \* self.rx_busy_until (.get(nid, 0))
  loss_streaks,         \* self.loss_streaks (defaultdict(int))
  active_transmissions, \* self.active_transmissions
  pc,                   \* where each connection's session thread is
  node_id,              \* _handle_client's local node_id
  msg,                  \* the tx frame the thread is dispatching
  sender_freq,          \* _process_transmission's local sender_freq
  from_loc,             \* _process_transmission's local from_loc
  targets,              \* the targets still to be processed
  tmp,                  \* the value loaded by += 1 / -= 1
  att,                  \* the locals of the current loop iteration
  frames,               \* frames the clients may still send
  clock,                \* time.time()
  log,                  \* the last line written to the logger
  last_reg,             \* history: the connection that last registered each id
  drop_run,             \* history: trailing run of drop verdicts per pair
  lock,                 \* self.lock: the session holding it, or None
  reg,                  \* _handle_client's locals location and frequency
  iter,                 \* the clients.items() iterator of the comprehension
  exc,                  \* the exception propagating out of the dispatcher
  inbox,                \* lines a client has sent that its session has not read
  handled,              \* history: the lines each session has read, in order
  main,                 \* where the main thread is in start() and shutdown()
  shutting_down,        \* self.shutting_down
  stop_event,           \* self.stop_event.is_set()
  server_socket,        \* the listener, "open" or "closed"
  shut,                 \* the connections whose socket shutdown() has closed
  sigs,                 \* interrupts delivered to the process
  calls,                \* history: invocations of shutdown()
  teardowns,            \* history: invocations that went past the guard
  first_by,             \* history: who made the invocation that went past it
  prob,                 \* should_drop's locals: the terms of the probability
  radio                 \* the SimulatedRFM9x at the other end of a connection

regVars == <<clients, node_locations, node_frequency>>
tabVars == <<rx_busy_until, loss_streaks>>
locVars == <<msg, sender_freq, from_loc, targets, tmp, att>>
\* the lock and the locals only the finer steps and the exception paths use
auxVars == <<lock, reg, iter, exc>>
\* the lines a session has yet to read, and those it has read
netVars == <<inbox, handled>>
\* the main thread: the accept loop, the signal handler and shutdown()
mainVars == <<main, shutting_down, stop_event, server_socket, shut, sigs, calls,
              teardowns, first_by>>
\* the radios of simulated_rfm9x.py, one per connection that has one
radioVars == <<radio>>
\* what a session thread leaves alone unless its action says otherwise
restVars == <<mainVars, prob, radioVars>>
vars == <<clients, node_locations, node_frequency, rx_busy_until, loss_streaks,
          active_transmissions, pc, node_id, msg, sender_freq, from_loc,
          targets, tmp, att, frames, clock, log, last_reg, drop_run,
          lock, reg, iter, exc, inbox, handled, main, shutting_down,
          stop_event, server_socket, shut, sigs, calls, teardowns, first_by,
          prob, radio>>

Pairs == NodeIds \X NodeIds

NoMsg == [from |-> None, dest |-> None, sf |-> None, flags |-> None]
\* no iterator: pos entries were passed, the dict had `used` entries when the
\* iterator was made, `left` are still to be yielded
NoIter == [pos |-> None, used |-> None, left |-> None]
NoExc == "none"
\* should_drop has computed no probability
NoProb == [congestion |-> None, streak |-> None, snr |-> None, rssi |-> None,
           interference |-> None, total |-> None]
\* a radio's application has made no call, and a call has returned nothing yet
NoOp == [name |-> "none"]
NoRet == "none"
NoAtt == [nid |-> None, sock |-> None, dist2 |-> None, rssi |-> 0, snr |-> 0,
          delay |-> 0, now |-> None, busy |-> None, reason |-> NoDrop]

\* ------------------------------------------------------------ dict helpers
\* A dict is a sequence of <<key, value>> in insertion order.
DictHas(d, k) == \E i \in DOMAIN d : d[i][1] = k

DictGet(d, k) ==
  IF DictHas(d, k) THEN d[CHOOSE i \in DOMAIN d : d[i][1] = k][2] ELSE None

\* d.setdefault(k, v): keeps the value of a key already present
DictSetDefault(d, k, v) ==
  IF DictHas(d, k) THEN d ELSE Append(d, <<k, v>>)

\* d[k] = v: an existing key keeps its position and gets the new value
DictSet(d, k, v) ==
  IF DictHas(d, k)
    THEN [i \in DOMAIN d |-> IF d[i][1] = k THEN <<k, v>> ELSE d[i]]
    ELSE Append(d, <<k, v>>)

\* d.pop(k, None)
DictPop(d, k) == SelectSeq(d, LAMBDA e : e[1] # k)

\* math.dist(a, b) squared
Dist2(a, b) == (a[1] - b[1]) * (a[1] - b[1]) + (a[2] - b[2]) * (a[2] - b[2])

\* .get(k, (0, 0)) on node_locations
LocOf(locs, k) == IF k \in NodeIds /\ locs[k] # NoLoc THEN locs[k] ELSE <<0, 0>>

\* a lookup that finds every node on 915 MHz
FreqIgnored(freqs, k) == 915

\* .get(k) on node_frequency
FreqOf(freqs, k) == IF k \in NodeIds THEN freqs[k] ELSE None

\* Python truthiness of node_id: None and 0 are falsy
Truthy(n) == n # None /\ n # 0

\* ------------------------------------------------------------ initial state
\* nobody holds the lock, no session is inside a register frame, an iteration
\* or an exception, and no line is waiting
InitAux ==
  /\ lock = None
  /\ reg = [c \in Conns |-> <<>>]
  /\ iter = [c \in Conns |-> NoIter]
  /\ exc = [c \in Conns |-> NoExc]
  /\ inbox = [c \in Conns |-> <<>>]
  /\ handled = [c \in Conns |-> <<>>]

\* the main thread is in the accept loop of start() and no interrupt has come
InitMain ==
  /\ main = "accept"
  /\ shutting_down = FALSE
  /\ stop_event = FALSE
  /\ server_socket = "open"
  /\ shut = {}
  /\ sigs = 0
  /\ calls = 0
  /\ teardowns = 0
  /\ first_by = "none"

\* no connection has a radio of simulated_rfm9x.py at its other end
InitNoRadio == radio = <<>>

InitRest ==
  /\ InitMain
  /\ prob = [c \in Conns |-> NoProb]
  /\ InitNoRadio

Init ==
  /\ clients = <<>>
  /\ node_locations = [n \in NodeIds |-> NoLoc]
  /\ node_frequency = [n \in NodeIds |-> None]
  /\ rx_busy_until = [n \in NodeIds |-> 0]
  /\ loss_streaks = [p \in Pairs |-> 0]
  /\ active_transmissions = 0
  /\ pc = [c \in Conns |-> "unaccepted"]
  /\ node_id = [c \in Conns |-> None]
  /\ msg = [c \in Conns |-> NoMsg]
  /\ sender_freq = [c \in Conns |-> None]
  /\ from_loc = [c \in Conns |-> <<0, 0>>]
  /\ targets = [c \in Conns |-> <<>>]
  /\ tmp = [c \in Conns |-> 0]
  /\ att = [c \in Conns |-> NoAtt]
  /\ frames = MaxFrames
  /\ clock = 0
  /\ log = [type |-> "STARTING"]
  /\ last_reg = [n \in NodeIds |-> None]
  /\ drop_run = [p \in Pairs |-> 0]
  /\ InitAux
  /\ InitRest

\* ------------------------------------------------------------ drop engine
\* The smaller and the larger of two numbers
Min(a, b) == IF a < b THEN a ELSE b
Max(a, b) == IF a > b THEN a ELSE b

\* the probability with a congestion term that is not capped
drop_probability_uncapped(streak, inflight, rssi, sf, snr_prob) ==
  LET congestion_prob == inflight * inflight * 50
      streak_prob == Min(streak * 700, 3500)
      rssi_margin == rssi - (SfSensitivity[sf] + 50)
      rssi_prob == IF rssi_margin > 0 THEN 0
                   ELSE Min(0 - rssi_margin, 100) * 40
      interference_prob == 3 * inflight * sf
      base_prob == congestion_prob + streak_prob + snr_prob + rssi_prob
                     + interference_prob
  IN  [congestion |-> congestion_prob, streak |-> streak_prob,
       snr |-> snr_prob, rssi |-> rssi_prob,
       interference |-> interference_prob, total |-> Min(base_prob, 9800)]

\* The probability of lines 167-202 and its terms, in 1/10000.  snr_prob is
\* math.exp(-snr_margin / snr_margin_factor) * 0.6 with a margin that is not
\* negative, a value in (0, 0.6]: it is an input.  sf_interference_factor is
\* sf / 10 for the sf of the table.
drop_probability(streak, inflight, rssi, sf, snr_prob) ==
  LET congestion_prob == Min(inflight * inflight, 100) * 50
      streak_prob == Min(streak * 700, 3500)
      rssi_margin == rssi - (SfSensitivity[sf] + 50)
      rssi_prob == IF rssi_margin > 0 THEN 0
                   ELSE Min(0 - rssi_margin, 100) * 40
      interference_prob == 3 * inflight * sf
      base_prob == congestion_prob + streak_prob + snr_prob + rssi_prob
                     + interference_prob
  IN  [congestion |-> congestion_prob, streak |-> streak_prob,
       snr |-> snr_prob, rssi |-> rssi_prob,
       interference |-> interference_prob, total |-> Min(base_prob, 9800)]

\* should_drop (lines 145-217).  rangeRoll is `random.random() < distance_prob`
\* and statRoll is `random.random() < prob`: distance_prob lies in (0, 0.95]
\* and prob in (0, 0.98] (snr_prob is positive), so either draw can go both
\* ways.  The result is the verdict and the loss_streaks table it leaves.
should_drop(streaks, inflight, from_id, to_id, rssi, snr, sf, dist2, snr_prob, rangeRoll, statRoll) ==
  LET key == <<from_id, to_id>>
      max_range == SfMaxRangeKm[sf]
  IN  IF rssi < SfSensitivity[sf]
        THEN [drop |-> TRUE, streaks |-> streaks, prob |-> NoProb]
      ELSE IF snr < SfSnrMin[sf]
        THEN [drop |-> TRUE, streaks |-> streaks, prob |-> NoProb]
      ELSE IF dist2 > max_range * max_range /\ rangeRoll
        THEN [drop |-> TRUE, streaks |-> streaks, prob |-> NoProb]
      ELSE [drop |-> statRoll,
            streaks |-> [streaks EXCEPT ![key] = IF statRoll THEN @ + 1 ELSE 0],
            prob |-> drop_probability(streaks[key], inflight, rssi, sf, snr_prob)]

\* the label chain with the streak test ahead of the congestion test
drop_label_streak_first(inflight, streak, snr, min_snr) ==
  IF streak > 3 THEN "PERSISTENT_LINK_FAILURE"
  ELSE IF inflight * 10 > max_inflight_packets * 8 THEN "NETWORK_CONGESTION"
  ELSE IF snr < min_snr + 30 THEN "MARGINAL_SNR"
  ELSE "RANDOM_LOSS"

\* The label of a drop should_drop decided (lines 590-597).  `streak` is
\* loss_streaks.get((from_id, nid), 0) as should_drop left it, and
\* max_inflight_packets * 0.8 is 8.0 exactly.
drop_label(inflight, streak, snr, min_snr) ==
  IF inflight * 10 > max_inflight_packets * 8 THEN "NETWORK_CONGESTION"
  ELSE IF streak > 3 THEN "PERSISTENT_LINK_FAILURE"
  ELSE IF snr < min_snr + 30 THEN "MARGINAL_SNR"
  ELSE "RANDOM_LOSS"

\* get_drop_reason with the sensitivity test ahead of the collision test
get_drop_reason_rssi_first(busy, streaks, inflight, now, rssi, sf, nid, snr, min_snr, from_id, dist2, snr_prob, rangeRoll, statRoll) ==
  LET sd == should_drop(streaks, inflight, from_id, nid, rssi, snr, sf, dist2,
                        snr_prob, rangeRoll, statRoll)
  IN  IF rssi < SfSensitivity[sf]
        THEN [reason |-> "RSSI_TOO_LOW", streaks |-> streaks, prob |-> NoProb]
      ELSE IF now < busy[nid]
        THEN [reason |-> "COLLISION", streaks |-> streaks, prob |-> NoProb]
      ELSE IF snr < min_snr
        THEN [reason |-> "SNR_TOO_LOW", streaks |-> streaks, prob |-> NoProb]
      ELSE IF sd.drop
        THEN [reason |-> drop_label(inflight, sd.streaks[<<from_id, nid>>],
                                    snr, min_snr),
              streaks |-> sd.streaks, prob |-> sd.prob]
      ELSE [reason |-> NoDrop, streaks |-> sd.streaks, prob |-> sd.prob]

\* get_drop_reason (lines 575-600): the reason, or NoDrop, and the
\* loss_streaks table should_drop leaves behind
get_drop_reason(busy, streaks, inflight, now, rssi, sf, nid, snr, min_snr, from_id, dist2, snr_prob, rangeRoll, statRoll) ==
  LET sd == should_drop(streaks, inflight, from_id, nid, rssi, snr, sf, dist2,
                        snr_prob, rangeRoll, statRoll)
  IN  IF now < busy[nid]
        THEN [reason |-> "COLLISION", streaks |-> streaks, prob |-> NoProb]
      ELSE IF rssi < SfSensitivity[sf]
        THEN [reason |-> "RSSI_TOO_LOW", streaks |-> streaks, prob |-> NoProb]
      ELSE IF snr < min_snr
        THEN [reason |-> "SNR_TOO_LOW", streaks |-> streaks, prob |-> NoProb]
      ELSE IF sd.drop
        THEN [reason |-> drop_label(inflight, sd.streaks[<<from_id, nid>>],
                                    snr, min_snr),
              streaks |-> sd.streaks, prob |-> sd.prob]
      ELSE [reason |-> NoDrop, streaks |-> sd.streaks, prob |-> sd.prob]

\* ------------------------------------------------------------ sessions
\* start(): the accept loop hands the connection to a new session thread
Accept(c) ==
  /\ main = "accept"
  /\ pc[c] = "unaccepted"
  /\ \A d \in Conns : d < c => pc[d] # "unaccepted"
  /\ pc' = [pc EXCEPT ![c] = "read"]
  /\ log' = [type |-> "CONNECTED", conn |-> c]
  /\ UNCHANGED <<regVars, tabVars, active_transmissions, node_id, locVars,
                 frames, clock, last_reg, drop_run, auxVars, netVars,
                 restVars>>

\* _handle_client on a register line (lines 629-637): `with self.lock` waits
\* until the lock is free.  Where the line comes from is left to the caller.
OnRegister(c, n, loc, f) ==
  /\ pc[c] = "read"
  /\ lock = None
  /\ node_id' = [node_id EXCEPT ![c] = n]
  /\ clients' = DictSet(clients, n, c)
  /\ node_locations' = [node_locations EXCEPT ![n] = loc]
  /\ node_frequency' = [node_frequency EXCEPT ![n] = f]
  /\ log' = [type |-> "REGISTERED", conn |-> c, nid |-> n, loc |-> loc,
             freq |-> f]
  /\ last_reg' = [last_reg EXCEPT ![n] = c]
  /\ UNCHANGED <<tabVars, active_transmissions, pc, locVars, clock, drop_run,
                 auxVars,
                 restVars>>

\* a client sends a register frame and its session reads it
Register(c, n, loc, f) ==
  /\ frames > 0
  /\ frames' = frames - 1
  /\ OnRegister(c, n, loc, f)
  /\ UNCHANGED netVars

\* The same frame, one shared access at a time: lines 630-633, the locals are
\* set and the lock is taken
RegLock(c, n, loc, f) ==
  /\ pc[c] = "read"
  /\ lock = None
  /\ frames > 0
  /\ frames' = frames - 1
  /\ node_id' = [node_id EXCEPT ![c] = n]
  /\ reg' = [reg EXCEPT ![c] = <<loc, f>>]
  /\ lock' = c
  /\ pc' = [pc EXCEPT ![c] = "reg_clients"]
  /\ UNCHANGED <<regVars, tabVars, active_transmissions, locVars, clock, log,
                 last_reg, drop_run, iter, exc, netVars,
                 restVars>>

\* `self.clients[node_id] = conn` (line 634)
RegClients(c) ==
  /\ pc[c] = "reg_clients"
  /\ clients' = DictSet(clients, node_id[c], c)
  /\ last_reg' = [last_reg EXCEPT ![node_id[c]] = c]
  /\ pc' = [pc EXCEPT ![c] = "reg_locations"]
  /\ UNCHANGED <<node_locations, node_frequency, tabVars, active_transmissions,
                 node_id, locVars, frames, clock, log, drop_run, auxVars,
                 netVars,
                 restVars>>

\* `self.node_locations[node_id] = location` (line 635)
RegLocations(c) ==
  /\ pc[c] = "reg_locations"
  /\ node_locations' = [node_locations EXCEPT ![node_id[c]] = reg[c][1]]
  /\ pc' = [pc EXCEPT ![c] = "reg_frequency"]
  /\ UNCHANGED <<clients, node_frequency, tabVars, active_transmissions,
                 node_id, locVars, frames, clock, log, last_reg, drop_run,
                 auxVars, netVars,
                 restVars>>

\* `self.node_frequency[node_id] = frequency`, the lock is released and the
\* line of 637 is logged
RegFrequency(c) ==
  /\ pc[c] = "reg_frequency"
  /\ node_frequency' = [node_frequency EXCEPT ![node_id[c]] = reg[c][2]]
  /\ lock' = None
  /\ log' = [type |-> "REGISTERED", conn |-> c, nid |-> node_id[c],
             loc |-> reg[c][1], freq |-> reg[c][2]]
  /\ reg' = [reg EXCEPT ![c] = <<>>]
  /\ pc' = [pc EXCEPT ![c] = "read"]
  /\ UNCHANGED <<clients, node_locations, tabVars, active_transmissions,
                 node_id, locVars, frames, clock, last_reg, drop_run, iter, exc,
                 netVars,
                 restVars>>

\* a bad line that makes the session forget its registration
OnMalformedForgetting(c) ==
  /\ pc[c] = "read"
  /\ node_id' = [node_id EXCEPT ![c] = None]
  /\ UNCHANGED <<regVars, tabVars, active_transmissions, pc, locVars,
                 clock, log, last_reg, drop_run, auxVars,
                 restVars>>

\* a line json.loads rejects: `continue` (lines 625-628)
OnMalformed(c) ==
  /\ pc[c] = "read"
  /\ UNCHANGED <<regVars, tabVars, active_transmissions, pc, node_id, locVars,
                 clock, log, last_reg, drop_run, auxVars,
                 restVars>>

RecvMalformed(c) ==
  /\ frames > 0
  /\ frames' = frames - 1
  /\ OnMalformed(c)
  /\ UNCHANGED netVars

\* the place of key k in d, 0 when d has no such key
IndexOf(d, k) ==
  IF DictHas(d, k) THEN CHOOSE i \in DOMAIN d : d[i][1] = k ELSE 0

\* An iterator after the entry at place j is popped.  CPython leaves a hole in
\* the entries array and the iterator keeps its index, so the entries still
\* ahead of it are the same ones; a dict here has no holes, so an iterator
\* that had passed the entry has passed one entry less.
PassOver(it, j) ==
  IF it.pos # None /\ j > 0 /\ j <= it.pos THEN [it EXCEPT !.pos = @ - 1] ELSE it

\* the finally block of _handle_client (lines 640-649)
CloseSession(c) ==
  /\ Truthy(node_id[c]) => lock = None
  /\ clients' = IF Truthy(node_id[c]) THEN DictPop(clients, node_id[c])
                ELSE clients
  /\ iter' = IF Truthy(node_id[c])
               THEN [d \in Conns |-> PassOver(iter[d], IndexOf(clients, node_id[c]))]
               ELSE iter
  /\ pc' = [pc EXCEPT ![c] = "closed"]
  /\ log' = [type |-> "DISCONNECTED", conn |-> c, nid |-> node_id[c]]
  /\ UNCHANGED <<node_locations, node_frequency, tabVars,
                 active_transmissions, node_id, locVars, frames, clock,
                 last_reg, drop_run, lock, reg, exc, netVars,
                 restVars>>

\* _handle_client, end of input
RecvEOF(c) ==
  /\ pc[c] = "read"
  /\ CloseSession(c)

\* an exception of the dispatcher leaves the read loop through the finally
\* block and ends the thread
Unwind(c) ==
  /\ pc[c] = "unwind"
  /\ CloseSession(c)

\* _handle_client on a tx line: _process_transmission up to line 678
OnTx(c, from_id, to_id, sf, flags) ==
  /\ pc[c] = "read"
  /\ msg' = [msg EXCEPT ![c] = [from |-> from_id, dest |-> to_id, sf |-> sf,
                                flags |-> flags]]
  /\ from_loc' = [from_loc EXCEPT ![c] = LocOf(node_locations, from_id)]
  /\ sender_freq' = [sender_freq EXCEPT ![c] = FreqOf(node_frequency, from_id)]
  /\ pc' = [pc EXCEPT ![c] = "inc_load"]
  /\ UNCHANGED <<regVars, tabVars, active_transmissions, node_id, targets,
                 tmp, att, clock, log, last_reg, drop_run, auxVars,
                 restVars>>

\* a client sends a tx frame and its session reads it
RecvTx(c, from_id, to_id, sf, flags) ==
  /\ frames > 0
  /\ frames' = frames - 1
  /\ OnTx(c, from_id, to_id, sf, flags)
  /\ UNCHANGED netVars

\* ------------------------------------------------------------ the stream
\* a client writes a line to its connection
ClientSend(c, l) ==
  /\ pc[c] \notin {"unaccepted", "closed"}
  /\ frames > 0
  /\ frames' = frames - 1
  /\ inbox' = [inbox EXCEPT ![c] = Append(@, l)]
  /\ UNCHANGED <<regVars, tabVars, active_transmissions, pc, node_id, locVars,
                 clock, log, last_reg, drop_run, auxVars, handled,
                 restVars>>

\* the line at the newest end of the stream
NewestLine(q) == q[Len(q)]

\* `for line in conn_file` yields the oldest line not yet read
NextLine(q) == Head(q)

\* the session reads its next line and handles it by its type
ReadLine(c) ==
  /\ inbox[c] # <<>>
  /\ LET l == NextLine(inbox[c])
     IN  /\ \/ l[1] = "register" /\ OnRegister(c, l[2], l[3], l[4])
            \/ l[1] = "tx" /\ OnTx(c, l[2], l[3], l[4], l[5])
            \/ l[1] = "malformed" /\ OnMalformed(c)
         /\ handled' = [handled EXCEPT ![c] = Append(@, l)]
  /\ inbox' = [inbox EXCEPT ![c] = Tail(@)]
  /\ UNCHANGED frames

\* end of input is read after every line sent before it
ReadEOF(c) ==
  /\ inbox[c] = <<>>
  /\ RecvEOF(c)

\* ------------------------------------------------------------ dispatcher
\* `self.active_transmissions += 1` (line 680) is a load and a store
IncLoad(c) ==
  /\ pc[c] = "inc_load"
  /\ tmp' = [tmp EXCEPT ![c] = active_transmissions]
  /\ pc' = [pc EXCEPT ![c] = "inc_store"]
  /\ UNCHANGED <<regVars, tabVars, active_transmissions, node_id, msg,
                 sender_freq, from_loc, targets, att, frames, clock, log,
                 last_reg, drop_run, auxVars, netVars,
                 restVars>>

IncStore(c) ==
  /\ pc[c] = "inc_store"
  /\ active_transmissions' = tmp[c] + 1
  /\ pc' = [pc EXCEPT ![c] = "resolve"]
  /\ UNCHANGED <<regVars, tabVars, node_id, locVars, frames, clock, log,
                 last_reg, drop_run, auxVars, netVars,
                 restVars>>

\* the filter of the broadcast comprehension (line 699)
IsPeer(e, freqs, from_id, sfreq) ==
  e[1] # from_id /\ e[2] # None /\ FreqOf(freqs, e[1]) = sfreq

\* the broadcast comprehension of lines 696-700, in dict order
BroadcastTargets(cl, freqs, from_id, sfreq) ==
  SelectSeq(cl, LAMBDA e : IsPeer(e, freqs, from_id, sfreq))

\* where the thread goes once `todo` is what is left of the for loop
AfterTarget(todo) == IF todo = <<>> THEN "dec_load" ELSE "eval"

\* target resolution (lines 682-700)
Resolve(c) ==
  /\ pc[c] = "resolve"
  /\ LET to_id == msg[c].dest
         client_sock == DictGet(clients, to_id)
         receiver_freq == FreqOf(node_frequency, to_id)
     IN  IF to_id # BROADCAST
           THEN IF client_sock # None /\ sender_freq[c] = receiver_freq
                  THEN /\ targets' = [targets EXCEPT ![c] = << <<to_id, client_sock>> >>]
                       /\ pc' = [pc EXCEPT ![c] = "eval"]
                       /\ log' = log
                ELSE IF client_sock # None
                  THEN /\ log' = [type |-> "DROP", reason |-> "FREQ_MISMATCH",
                                  conn |-> c, from |-> msg[c].from, nid |-> to_id]
                       /\ pc' = [pc EXCEPT ![c] = "dec_load"]
                       /\ targets' = targets
                ELSE /\ log' = [type |-> "DROP", reason |-> "INVALID_DESTINATION",
                                conn |-> c, from |-> msg[c].from, nid |-> to_id]
                     /\ pc' = [pc EXCEPT ![c] = "dec_load"]
                     /\ targets' = targets
           ELSE LET t == BroadcastTargets(clients, node_frequency, msg[c].from,
                                          sender_freq[c])
                IN  /\ targets' = [targets EXCEPT ![c] = t]
                    /\ pc' = [pc EXCEPT ![c] = AfterTarget(t)]
                    /\ log' = log
  /\ UNCHANGED <<regVars, tabVars, active_transmissions, node_id, msg,
                 sender_freq, from_loc, tmp, att, frames, clock, last_reg,
                 drop_run, auxVars, netVars,
                 restVars>>

\* the unicast branch alone (lines 682-693)
ResolveUnicast(c) ==
  /\ msg[c].dest # BROADCAST
  /\ Resolve(c)

\* The broadcast branch, one item at a time: iter(self.clients.items()) notes
\* the number of entries of the dict
IterBegin(c) ==
  /\ pc[c] = "resolve"
  /\ msg[c].dest = BROADCAST
  /\ iter' = [iter EXCEPT ![c] = [pos |-> 0, used |-> Len(clients),
                                  left |-> Len(clients)]]
  /\ targets' = [targets EXCEPT ![c] = <<>>]
  /\ pc' = [pc EXCEPT ![c] = "iter"]
  /\ UNCHANGED <<regVars, tabVars, active_transmissions, node_id, msg,
                 sender_freq, from_loc, tmp, att, frames, clock, log, last_reg,
                 drop_run, lock, reg, exc, netVars,
                 restVars>>

\* next() on the iterator and the filter of line 699.  The iterator raises
\* RuntimeError when the dict has another number of entries than at its start
\* ("changed size during iteration") or yields more entries than it had then
\* ("keys changed during iteration"); the exception leaves the dispatcher
\* through the finally of line 750.
IterNext(c) ==
  /\ pc[c] = "iter"
  /\ LET it == iter[c]
         e == clients[it.pos + 1]
     IN  IF Len(clients) # it.used \/ (it.pos < Len(clients) /\ it.left = 0)
           THEN /\ exc' = [exc EXCEPT ![c] = "RuntimeError"]
                /\ iter' = [iter EXCEPT ![c] = NoIter]
                /\ targets' = [targets EXCEPT ![c] = <<>>]
                /\ pc' = [pc EXCEPT ![c] = "dec_load"]
         ELSE IF it.pos >= Len(clients)
           THEN /\ iter' = [iter EXCEPT ![c] = NoIter]
                /\ pc' = [pc EXCEPT ![c] = AfterTarget(targets[c])]
                /\ UNCHANGED <<exc, targets>>
         ELSE /\ iter' = [iter EXCEPT ![c] = [it EXCEPT !.pos = @ + 1,
                                                        !.left = @ - 1]]
              /\ targets' = [targets EXCEPT ![c] =
                   IF IsPeer(e, node_frequency, msg[c].from, sender_freq[c])
                     THEN Append(@, e) ELSE @]
              /\ UNCHANGED <<exc, pc>>
  /\ UNCHANGED <<regVars, tabVars, active_transmissions, node_id, msg,
                 sender_freq, from_loc, tmp, att, frames, clock, log, last_reg,
                 drop_run, lock, reg, netVars,
                 restVars>>

\* what get_drop_reason returns for the first target left (line 722)
Verdict(c, rssi, snr, snr_prob, rangeRoll, statRoll) ==
  LET nid == Head(targets[c])[1]
      to_loc == LocOf(node_locations, nid)
  IN  get_drop_reason(rx_busy_until, loss_streaks, active_transmissions,
                      clock, rssi, msg[c].sf, nid, snr, SnrMinOf(msg[c].sf),
                      msg[c].from, Dist2(from_loc[c], to_loc), snr_prob,
                      rangeRoll, statRoll)

\* one loop iteration up to the verdict (lines 703-724).  rssi and snr come
\* out of float formulas over the frame's tx_power, the distance and jitter;
\* the frame chooses tx_power freely, so they are inputs here, as is the delay.
\* `busy` keeps the value line 576 read from rx_busy_until.  An sf that is not
\* a key of SF_SENSITIVITY gets as far as a verdict only through the
\* COLLISION test, which comes before the lookup of line 580.
\* r is what get_drop_reason returned.
Evaluate(c, rssi, snr, delay, r) ==
  /\ pc[c] = "eval"
  /\ LET nid == Head(targets[c])[1]
         client_sock == Head(targets[c])[2]
         from_id == msg[c].from
         sf == msg[c].sf
         to_loc == LocOf(node_locations, nid)
         dist2 == Dist2(from_loc[c], to_loc)
         now == clock
     IN  /\ sf \in DOMAIN SfSensitivity \/ now < rx_busy_until[nid]
         /\ loss_streaks' = r.streaks
         /\ drop_run' = [drop_run EXCEPT ![<<from_id, nid>>] =
                           IF r.reason # NoDrop THEN @ + 1 ELSE 0]
         /\ att' = [att EXCEPT ![c] =
                      [nid |-> nid, sock |-> client_sock, dist2 |-> dist2,
                       rssi |-> rssi, snr |-> snr, delay |-> delay, now |-> now,
                       busy |-> rx_busy_until[nid],
                       reason |-> r.reason]]
         /\ pc' = [pc EXCEPT ![c] = "verdict"]
  /\ UNCHANGED <<regVars, rx_busy_until, active_transmissions, node_id, msg,
                 sender_freq, from_loc, targets, tmp, frames, clock, log,
                 last_reg, auxVars, netVars, mainVars, radioVars>>

\* the terms of the probability are locals of should_drop, gone when it
\* returns
Eval(c, rssi, snr, delay, snr_prob, rangeRoll, statRoll) ==
  /\ Evaluate(c, rssi, snr, delay,
              Verdict(c, rssi, snr, snr_prob, rangeRoll, statRoll))
  /\ UNCHANGED prob

\* `SF_SENSITIVITY[sf]` (line 580) raises KeyError for an sf the table does not
\* have; the exception leaves the loop and the dispatcher through the finally
EvalRaise(c) ==
  /\ pc[c] = "eval"
  /\ msg[c].sf \notin DOMAIN SfSensitivity
  /\ ~(clock < rx_busy_until[Head(targets[c])[1]])
  /\ exc' = [exc EXCEPT ![c] = "KeyError"]
  /\ pc' = [pc EXCEPT ![c] = "dec_load"]
  /\ UNCHANGED <<regVars, tabVars, active_transmissions, node_id, locVars,
                 frames, clock, log, last_reg, drop_run, lock, reg, iter,
                 netVars,
                 restVars>>

\* a drop that marks the receiver busy all the same
LogDropMarkingBusy(c) ==
  /\ pc[c] = "verdict"
  /\ att[c].reason # NoDrop
  /\ rx_busy_until' = [rx_busy_until EXCEPT ![att[c].nid] =
                         att[c].now + att[c].delay]
  /\ log' = [type |-> "DROP", reason |-> att[c].reason, conn |-> c,
             from |-> msg[c].from, nid |-> att[c].nid]
  /\ att' = [att EXCEPT ![c] = NoAtt]
  /\ targets' = [targets EXCEPT ![c] = Tail(@)]
  /\ pc' = [pc EXCEPT ![c] = AfterTarget(Tail(targets[c]))]
  /\ prob' = [prob EXCEPT ![c] = NoProb]
  /\ UNCHANGED <<regVars, loss_streaks, active_transmissions, node_id, msg,
                 sender_freq, from_loc, tmp, frames, clock, last_reg, drop_run,
                 auxVars, netVars, mainVars,
                 radioVars>>

\* `if drop_reason:` the warning of line 727 and `continue`
LogDrop(c) ==
  /\ pc[c] = "verdict"
  /\ att[c].reason # NoDrop
  /\ log' = [type |-> "DROP", reason |-> att[c].reason, conn |-> c,
             from |-> msg[c].from, nid |-> att[c].nid]
  /\ att' = [att EXCEPT ![c] = NoAtt]
  /\ targets' = [targets EXCEPT ![c] = Tail(@)]
  /\ pc' = [pc EXCEPT ![c] = AfterTarget(Tail(targets[c]))]
  /\ prob' = [prob EXCEPT ![c] = NoProb]
  /\ UNCHANGED <<regVars, tabVars, active_transmissions, node_id, msg,
                 sender_freq, from_loc, tmp, frames, clock, last_reg, drop_run,
                 auxVars, netVars, mainVars,
                 radioVars>>

\* `self.rx_busy_until[nid] = now + delay_ms / 1000.0` (line 733)
Admit(c) ==
  /\ pc[c] = "verdict"
  /\ att[c].reason = NoDrop
  /\ rx_busy_until' = [rx_busy_until EXCEPT ![att[c].nid] =
                         att[c].now + att[c].delay]
  /\ pc' = [pc EXCEPT ![c] = "sleep"]
  /\ prob' = [prob EXCEPT ![c] = NoProb]
  /\ UNCHANGED <<regVars, loss_streaks, active_transmissions, node_id, locVars,
                 frames, clock, log, last_reg, drop_run, auxVars, netVars, mainVars,
                 radioVars>>

\* a socket that neither its session nor shutdown() has closed, in a process
\* that has not exited
SockOpen(s) == pc[s] \notin {"closed", "killed"} /\ s \notin shut

\* the frame with every field of the tx frame but the ACK bit of its flags
ForwardedWithoutAck(m, rssi, snr) ==
  [type |-> "tx", from |-> m.from, dest |-> m.dest, sf |-> m.sf,
   flags |-> IF m.flags >= 128 THEN m.flags - 128 ELSE m.flags,
   rssi |-> rssi, snr |-> snr]

\* json.dumps(msg) after lines 736-737: the dict json.loads made of the tx
\* line, with rssi and snr set
Forwarded(m, rssi, snr) ==
  [type |-> "tx", from |-> m.from, dest |-> m.dest, sf |-> m.sf,
   flags |-> m.flags, rssi |-> rssi, snr |-> snr]

\* a write whose failure is not caught: it leaves the loop as an exception
DeliverRaising(c, ok) ==
  /\ pc[c] = "sleep"
  /\ clock >= att[c].now + att[c].delay
  /\ ok => SockOpen(att[c].sock)
  /\ log' = IF ok
              THEN [type |-> "DELIVERED", conn |-> c, from |-> msg[c].from,
                    nid |-> att[c].nid, sock |-> att[c].sock,
                    sfreq |-> FreqOf(node_frequency, msg[c].from),
                    rfreq |-> FreqOf(node_frequency, att[c].nid),
                    frame |-> Forwarded(msg[c], att[c].rssi, att[c].snr)]
              ELSE [type |-> "SEND_FAILED", conn |-> c, from |-> msg[c].from,
                    nid |-> att[c].nid, sock |-> att[c].sock]
  /\ att' = [att EXCEPT ![c] = NoAtt]
  /\ targets' = [targets EXCEPT ![c] = IF ok THEN Tail(@) ELSE <<>>]
  /\ pc' = [pc EXCEPT ![c] = IF ok THEN AfterTarget(Tail(targets[c]))
                             ELSE "dec_load"]
  /\ exc' = [exc EXCEPT ![c] = IF ok THEN @ ELSE "OSError"]
  /\ UNCHANGED <<regVars, tabVars, active_transmissions, node_id, msg,
                 sender_freq, from_loc, tmp, frames, clock, last_reg,
                 drop_run, lock, reg, iter, netVars,
                 restVars>>

\* time.sleep(delay) is over, then sendall (lines 740-749): the write fails on
\* a closed socket and may fail on an open one (the peer is gone)
Deliver(c, ok) ==
  /\ pc[c] = "sleep"
  /\ clock >= att[c].now + att[c].delay
  /\ ok => SockOpen(att[c].sock)
  /\ log' = IF ok
              THEN [type |-> "DELIVERED", conn |-> c, from |-> msg[c].from,
                    nid |-> att[c].nid, sock |-> att[c].sock,
                    sfreq |-> FreqOf(node_frequency, msg[c].from),
                    rfreq |-> FreqOf(node_frequency, att[c].nid),
                    frame |-> Forwarded(msg[c], att[c].rssi, att[c].snr)]
              ELSE [type |-> "SEND_FAILED", conn |-> c, from |-> msg[c].from,
                    nid |-> att[c].nid, sock |-> att[c].sock]
  /\ att' = [att EXCEPT ![c] = NoAtt]
  /\ targets' = [targets EXCEPT ![c] = Tail(@)]
  /\ pc' = [pc EXCEPT ![c] = AfterTarget(Tail(targets[c]))]
  /\ UNCHANGED <<regVars, tabVars, active_transmissions, node_id, msg,
                 sender_freq, from_loc, tmp, frames, clock, last_reg,
                 drop_run, auxVars, netVars,
                 restVars>>

\* `self.active_transmissions -= 1` in the finally block (line 751)
DecLoad(c) ==
  /\ pc[c] = "dec_load"
  /\ tmp' = [tmp EXCEPT ![c] = active_transmissions]
  /\ pc' = [pc EXCEPT ![c] = "dec_store"]
  /\ UNCHANGED <<regVars, tabVars, active_transmissions, node_id, msg,
                 sender_freq, from_loc, targets, att, frames, clock, log,
                 last_reg, drop_run, auxVars, netVars,
                 restVars>>

\* a decrement that an exception skips
DecStoreUnlessRaised(c) ==
  /\ pc[c] = "dec_store"
  /\ active_transmissions' = IF exc[c] = NoExc THEN tmp[c] - 1
                             ELSE active_transmissions
  /\ pc' = [pc EXCEPT ![c] = IF exc[c] = NoExc THEN "read" ELSE "unwind"]
  /\ msg' = [msg EXCEPT ![c] = NoMsg]
  /\ sender_freq' = [sender_freq EXCEPT ![c] = None]
  /\ from_loc' = [from_loc EXCEPT ![c] = <<0, 0>>]
  /\ targets' = [targets EXCEPT ![c] = <<>>]
  /\ tmp' = [tmp EXCEPT ![c] = 0]
  /\ att' = [att EXCEPT ![c] = NoAtt]
  /\ UNCHANGED <<regVars, tabVars, node_id, frames, clock, log, last_reg,
                 drop_run, auxVars, netVars,
                 restVars>>

\* the store; then the return to the read loop of _handle_client, or the
\* exception goes on into it
DecStore(c) ==
  /\ pc[c] = "dec_store"
  /\ active_transmissions' = tmp[c] - 1
  /\ pc' = [pc EXCEPT ![c] = IF exc[c] = NoExc THEN "read" ELSE "unwind"]
  /\ msg' = [msg EXCEPT ![c] = NoMsg]
  /\ sender_freq' = [sender_freq EXCEPT ![c] = None]
  /\ from_loc' = [from_loc EXCEPT ![c] = <<0, 0>>]
  /\ targets' = [targets EXCEPT ![c] = <<>>]
  /\ tmp' = [tmp EXCEPT ![c] = 0]
  /\ att' = [att EXCEPT ![c] = NoAtt]
  /\ UNCHANGED <<regVars, tabVars, node_id, frames, clock, log, last_reg,
                 drop_run, auxVars, netVars,
                 restVars>>

\* time passes.  Only the comparisons of the clock with the ends of the
\* delays matter, so the clock moves while some thread is inside a delay.
Tick ==
  /\ clock < MaxTime
  /\ \E c \in Conns : /\ pc[c] \in {"verdict", "sleep"}
                      /\ att[c].reason = NoDrop
                      /\ clock < att[c].now + att[c].delay
  /\ clock' = clock + 1
  /\ UNCHANGED <<regVars, tabVars, active_transmissions, pc, node_id, locVars,
                 frames, log, last_reg, drop_run, auxVars, netVars,
                 restVars>>

\* ------------------------------------------------------------ main thread
\* The main thread runs start(); Python runs the handler of SIGINT in the main
\* thread, between two of its bytecodes, so an interrupt that comes while
\* shutdown() runs calls shutdown() again on top of it.  CPython 3.11 looks
\* for pending signals when a function is entered and after a call, not
\* between the test of line 778 and the store of line 780.

\* a guard that never sees the flag
NeverShuttingDown == FALSE

\* `if self.shutting_down: return` (lines 778-779)
AlreadyShuttingDown == shutting_down

\* shutdown() from its entry to stop_event.set() (lines 778-782), called by
\* `by`; `on` is where the caller goes if the call returns at once
ShutdownEnter(by, on) ==
  /\ calls' = calls + 1
  /\ IF AlreadyShuttingDown
       THEN /\ main' = on
            /\ UNCHANGED <<shutting_down, stop_event, teardowns, first_by, log>>
       ELSE /\ shutting_down' = TRUE
            /\ stop_event' = TRUE
            /\ teardowns' = teardowns + 1
            /\ first_by' = by
            /\ log' = [type |-> "SHUTTING_DOWN"]
            /\ main' = "teardown"

\* SIGINT: _handle_signal calls shutdown() wherever the main thread is, and
\* the main thread goes on from there when the call returns
Interrupt ==
  /\ sigs < MaxSignals
  /\ main # "exited"
  /\ sigs' = sigs + 1
  /\ ShutdownEnter("signal", main)
  /\ UNCHANGED <<regVars, tabVars, active_transmissions, pc, node_id, locVars,
                 frames, clock, last_reg, drop_run, auxVars, netVars,
                 server_socket, shut, prob, radioVars>>

\* accept() raises something else than socket.timeout: the finally of line
\* 771 calls shutdown()
AcceptFails ==
  /\ main = "accept"
  /\ ShutdownEnter("finally", "exit")
  /\ UNCHANGED <<regVars, tabVars, active_transmissions, pc, node_id, locVars,
                 frames, clock, last_reg, drop_run, auxVars, netVars,
                 server_socket, shut, sigs, prob, radioVars>>

\* lines 783-790: under the lock every socket in clients is shut down and
\* closed, then the table is cleared
Teardown ==
  /\ main = "teardown"
  /\ lock = None
  /\ shut' = shut \cup {clients[i][2] : i \in DOMAIN clients}
  /\ clients' = <<>>
  /\ main' = "listener"
  /\ UNCHANGED <<node_locations, node_frequency, tabVars, active_transmissions,
                 pc, node_id, locVars, frames, clock, log, last_reg, drop_run,
                 auxVars, netVars, shutting_down, stop_event, server_socket,
                 sigs, calls, teardowns, first_by, prob, radioVars>>

\* lines 791-795: the listener is closed and the end of shutdown is logged
ShutdownComplete ==
  /\ main = "listener"
  /\ server_socket' = "closed"
  /\ log' = [type |-> "SHUTDOWN_COMPLETE"]
  /\ main' = "sys_exit"
  /\ UNCHANGED <<regVars, tabVars, active_transmissions, pc, node_id, locVars,
                 frames, clock, last_reg, drop_run, auxVars, netVars,
                 shutting_down, stop_event, shut, sigs, calls, teardowns,
                 first_by, prob, radioVars>>

\* sys.exit(0) (line 796) raises SystemExit.  Raised under the signal handler
\* it leaves the try of start() through its finally; raised under that
\* finally it leaves start().
SysExit ==
  /\ main = "sys_exit"
  /\ main' = IF first_by = "signal" THEN "finally" ELSE "exit"
  /\ UNCHANGED <<regVars, tabVars, active_transmissions, pc, node_id, locVars,
                 frames, clock, log, last_reg, drop_run, auxVars, netVars,
                 shutting_down, stop_event, server_socket, shut, sigs, calls,
                 teardowns, first_by, prob, radioVars>>

\* `finally: self.shutdown()` (lines 771-772) on the way out
Finally ==
  /\ main = "finally"
  /\ ShutdownEnter("finally", "exit")
  /\ UNCHANGED <<regVars, tabVars, active_transmissions, pc, node_id, locVars,
                 frames, clock, last_reg, drop_run, auxVars, netVars,
                 server_socket, shut, sigs, prob, radioVars>>

\* the interpreter exits: the session threads are daemon threads (line 768)
\* and end with it, and the system closes every socket
ProcessExit ==
  /\ main = "exit"
  /\ main' = "exited"
  /\ pc' = [c \in Conns |-> IF pc[c] \in {"unaccepted", "closed"} THEN pc[c]
                            ELSE "killed"]
  /\ UNCHANGED <<regVars, tabVars, active_transmissions, node_id, locVars,
                 frames, clock, log, last_reg, drop_run, auxVars, netVars,
                 shutting_down, stop_event, server_socket, shut, sigs, calls,
                 teardowns, first_by, prob, radioVars>>

Next ==
  \/ \E c \in Conns : Accept(c)
  \/ \E c \in Conns, r \in RegFrames : Register(c, r[1], r[2], r[3])
  \/ \E c \in Conns : RecvMalformed(c)
  \/ \E c \in Conns : RecvEOF(c)
  \/ \E c \in Conns, t \in TxFrames : RecvTx(c, t[1], t[2], t[3], t[4])
  \/ \E c \in Conns : IncLoad(c)
  \/ \E c \in Conns : IncStore(c)
  \/ \E c \in Conns : Resolve(c)
  \/ \E c \in Conns, rssi \in RssiVals, snr \in SnrVals, delay \in 1..MaxDelay,
        rangeRoll \in BOOLEAN, statRoll \in BOOLEAN :
       Eval(c, rssi, snr, delay, SnrProb, rangeRoll, statRoll)
  \/ \E c \in Conns : EvalRaise(c)
  \/ \E c \in Conns : LogDrop(c)
  \/ \E c \in Conns : Admit(c)
  \/ \E c \in Conns, ok \in BOOLEAN : Deliver(c, ok)
  \/ \E c \in Conns : DecLoad(c)
  \/ \E c \in Conns : DecStore(c)
  \/ \E c \in Conns : Unwind(c)
  \/ Tick

Spec == Init /\ [][Next]_vars

\* The sessions alone: connections that register and close.
NextRegistry ==
  \/ \E c \in Conns : Accept(c)
  \/ \E c \in Conns, r \in RegFrames : Register(c, r[1], r[2], r[3])
  \/ \E c \in Conns : RecvEOF(c)

SpecRegistry == Init /\ [][NextRegistry]_vars

\* ------------------------------------------------------------ C1
\* The packets admitted for a receiver and not yet written
Admitted(c) == pc[c] = "sleep"

\* C1: while a receiver's busy window is running no second packet is
\* admitted for it: two packets admitted for the same receiver never have
\* overlapping windows [now, now + delay).
BusyWindowExclusive ==
  \A c1 \in Conns, c2 \in Conns :
    ( /\ c1 # c2
      /\ Admitted(c1) /\ Admitted(c2)
      /\ att[c1].nid = att[c2].nid
      /\ att[c1].now <= att[c2].now )
    => att[c2].now >= att[c1].now + att[c1].delay

\* ------------------------------------------------------------ C2
\* C2: no frame is written to a node whose registered frequency differs from
\* the registered frequency of the frame's sender (both read when the write
\* happens).
FrequencyFiltering ==
  log.type = "DELIVERED" => log.rfreq = log.sfreq

\* ------------------------------------------------------------ C3
\* C3: the loss streak of every pair is the number of drop verdicts at the
\* end of the pair's sequence of verdicts, whatever the reasons.
StreakDiscipline ==
  \A p \in Pairs : loss_streaks[p] = drop_run[p]

\* ------------------------------------------------------------ C4
\* the sessions whose increment is stored and whose decrement is not
InDispatcher ==
  {c \in Conns : pc[c] \in {"resolve", "eval", "verdict", "sleep",
                            "dec_load", "dec_store"}}

\* C4: the in-flight counter is the number of transmissions inside the
\* dispatcher; it is never negative and is 0 when nothing is being processed.
InFlightAccurate ==
  /\ active_transmissions = Cardinality(InDispatcher)
  /\ active_transmissions >= 0
  /\ (\A c \in Conns : pc[c] \in {"unaccepted", "read", "closed"})
       => active_transmissions = 0

\* ------------------------------------------------------------ C5
\* C5: once the session that last registered n is closed, n has no transport,
\* no location and no frequency left.
RegistryCleanupOnClose ==
  \A n \in NodeIds :
    (last_reg[n] # None /\ pc[last_reg[n]] = "closed")
    => /\ ~DictHas(clients, n)
       /\ node_locations[n] = NoLoc
       /\ node_frequency[n] = None

\* ------------------------------------------------------------ C6
\* the entries of the clients table under one id
EntriesOf(n) == {i \in DOMAIN clients : clients[i][1] = n}

\* C6: every id has at most one connection, the one that sent the latest
\* register frame for it, and a register frame leaves the id with its own
\* connection, location and frequency.
SingleOwnerRegistry ==
  /\ \A n \in NodeIds : Cardinality(EntriesOf(n)) <= 1
  /\ \A n \in NodeIds : DictHas(clients, n) => DictGet(clients, n) = last_reg[n]
  /\ log.type = "REGISTERED"
       => /\ DictGet(clients, log.nid) = log.conn
          /\ node_locations[log.nid] = log.loc
          /\ node_frequency[log.nid] = log.freq

\* an id registered by connection 1 has just been registered again by
\* connection 2, on another frequency
ReRegisteredByOther ==
  /\ log.type = "REGISTERED" /\ log.conn = 2 /\ log.nid = 1 /\ log.freq = 868
  /\ node_id[1] = 1 /\ pc[1] = "read"
  /\ DictGet(clients, 1) = 2

\* ------------------------------------------------------------ C7
\* C7: 255 is never a key of the registry.
ReservedBroadcastId ==
  /\ ~DictHas(clients, BROADCAST)
  /\ node_locations[BROADCAST] = NoLoc
  /\ node_frequency[BROADCAST] = None

\* ------------------------------------------------------------ C8
\* C8: a tx frame on a connection that has not registered is ignored: no
\* frame is ever delivered on behalf of a session whose node_id is unset.
PreRegistrationIgnored ==
  log.type = "DELIVERED" => node_id[log.conn] # None

\* ------------------------------------------------------------ C9
\* C9: every attempt over more than 25 km gets the verdict OUT_OF_RANGE, so
\* none is admitted.
HardRangeCap ==
  \A c \in Conns :
    (pc[c] \in {"verdict", "sleep"} /\ att[c].dist2 > 25 * 25)
    => att[c].reason = "OUT_OF_RANGE"

\* ------------------------------------------------------------ C10
\* The verdict of one delivery attempt, over inputs around every threshold:
\* node 0 (connection 1) and node 1 (connection 2) are registered on 915 MHz,
\* connection 2 is about to evaluate its frame 1 -> 0, and the clock, the
\* receiver's busy deadline, the pair's streak, the in-flight counter, the
\* sender's location and the frame's sf are drawn.
MaxStreak == 4
VerdictLocs == {<<0, 0>>, <<6, 8>>, <<18, 24>>}
VerdictInflight == {1, 8, 9}
VerdictRssi == {-1375, -1370, -1300, -1235, -1230, -1000}
VerdictSnr == {-205, -200, -180, -80, -75, -60, 50}

InitVerdict ==
  /\ clients = << <<0, 1>>, <<1, 2>> >>
  /\ \E l \in VerdictLocs :
       /\ node_locations = [n \in NodeIds |->
                              IF n = 0 THEN <<0, 0>> ELSE IF n = 1 THEN l ELSE NoLoc]
       /\ from_loc = [c \in Conns |-> IF c = 2 THEN l ELSE <<0, 0>>]
  /\ node_frequency = [n \in NodeIds |-> IF n \in {0, 1} THEN 915 ELSE None]
  /\ \E b \in 0..MaxDelay : rx_busy_until = [n \in NodeIds |-> IF n = 0 THEN b ELSE 0]
  /\ \E k \in 0..MaxStreak :
       /\ loss_streaks = [p \in Pairs |-> IF p = <<1, 0>> THEN k ELSE 0]
       /\ drop_run = [p \in Pairs |-> IF p = <<1, 0>> THEN k ELSE 0]
  /\ active_transmissions \in VerdictInflight
  /\ pc = [c \in Conns |-> IF c = 1 THEN "read" ELSE IF c = 2 THEN "eval"
                           ELSE "unaccepted"]
  /\ node_id = [c \in Conns |-> IF c = 1 THEN 0 ELSE IF c = 2 THEN 1 ELSE None]
  /\ \E sf \in 7..12 :
       msg = [c \in Conns |-> IF c = 2 THEN [from |-> 1, dest |-> 0, sf |-> sf,
                                              flags |-> 0]
                              ELSE NoMsg]
  /\ sender_freq = [c \in Conns |-> IF c = 2 THEN 915 ELSE None]
  /\ targets = [c \in Conns |-> IF c = 2 THEN << <<0, 1>> >> ELSE <<>>]
  /\ tmp = [c \in Conns |-> 0]
  /\ att = [c \in Conns |-> NoAtt]
  /\ frames = 0
  /\ clock \in 0..MaxTime
  /\ log = [type |-> "REGISTERED", conn |-> 2, nid |-> 1,
            loc |-> node_locations[1], freq |-> 915]
  /\ last_reg = [n \in NodeIds |-> IF n = 0 THEN 1 ELSE IF n = 1 THEN 2 ELSE None]
  /\ InitAux
  /\ InitRest

NextVerdict ==
  \/ \E c \in Conns, rssi \in VerdictRssi, snr \in VerdictSnr,
        rangeRoll \in BOOLEAN, statRoll \in BOOLEAN :
       Eval(c, rssi, snr, MaxDelay, SnrProb, rangeRoll, statRoll)
  \/ \E c \in Conns : LogDrop(c)
  \/ \E c \in Conns : Admit(c)

SpecVerdict == InitVerdict /\ [][NextVerdict]_vars

StatisticalReasons ==
  {"NETWORK_CONGESTION", "PERSISTENT_LINK_FAILURE", "MARGINAL_SNR", "RANDOM_LOSS"}

\* C10: within the 25 km cap the verdict is COLLISION if now < busy, else
\* RSSI_TOO_LOW if rssi < SF_SENSITIVITY[sf], else SNR_TOO_LOW if
\* snr < snr_min(sf); a keep or a statistical reason only when none holds.
DropRulePrecedence ==
  \A c \in Conns :
    (pc[c] = "verdict" /\ att[c].dist2 <= 25 * 25)
    => LET a == att[c]
           sf == msg[c].sf
           collision == a.now < a.busy
           rssiLow == a.rssi < SfSensitivity[sf]
           snrLow == a.snr < SfSnrMin[sf]
       IN  /\ collision => a.reason = "COLLISION"
           /\ (~collision /\ rssiLow) => a.reason = "RSSI_TOO_LOW"
           /\ (~collision /\ ~rssiLow /\ snrLow) => a.reason = "SNR_TOO_LOW"
           /\ (~collision /\ ~rssiLow /\ ~snrLow)
                => a.reason \in StatisticalReasons \cup {NoDrop}

\* an attempt inside the cap that meets all three conditions at once
AllThreeConditions ==
  \E c \in Conns :
    /\ pc[c] = "verdict" /\ att[c].dist2 <= 25 * 25
    /\ att[c].now < att[c].busy
    /\ att[c].rssi < SfSensitivity[msg[c].sf]
    /\ att[c].snr < SfSnrMin[msg[c].sf]
    /\ att[c].reason = "COLLISION"

\* ------------------------------------------------------------ C23
\* C23: a drop that should_drop decided is labelled NETWORK_CONGESTION if
\* in-flight / max_inflight > 0.8, else PERSISTENT_LINK_FAILURE if the pair's
\* entry of the loss-streak table is > 3, else MARGINAL_SNR if
\* snr < snr_min(sf) + 3, else RANDOM_LOSS, in exactly this precedence.
StatisticalLabelling ==
  \A c \in Conns :
    (pc[c] = "verdict" /\ att[c].reason \in StatisticalReasons)
    => LET a == att[c]
           congested == active_transmissions * 10 > max_inflight_packets * 8
           failing == loss_streaks[<<msg[c].from, a.nid>>] > 3
           marginal == a.snr < SfSnrMin[msg[c].sf] + 30
       IN  /\ congested <=> a.reason = "NETWORK_CONGESTION"
           /\ (~congested /\ failing) <=> a.reason = "PERSISTENT_LINK_FAILURE"
           /\ (~congested /\ ~failing /\ marginal) <=> a.reason = "MARGINAL_SNR"
           /\ (~congested /\ ~failing /\ ~marginal) <=> a.reason = "RANDOM_LOSS"

\* a drop between two nodes at the same place, decided by the probability
\* draw, that is congested, on a pair whose streak is above 3 and within
\* 3 dB of the SNR minimum, all at once
CongestedFailingMarginal ==
  \E c \in Conns :
    /\ pc[c] = "verdict" /\ att[c].dist2 = 0
    /\ active_transmissions * 10 > max_inflight_packets * 8
    /\ loss_streaks[<<msg[c].from, att[c].nid>>] > 3
    /\ att[c].snr < SfSnrMin[msg[c].sf] + 30
    /\ att[c].reason = "NETWORK_CONGESTION"

\* ------------------------------------------------------------ C11
\* C11: the busy deadline of a receiver never decreases, and every admission
\* of a delivery to a receiver strictly increases it.
MonotoneBusyWindow ==
  [][\A r \in NodeIds :
       /\ rx_busy_until'[r] >= rx_busy_until[r]
       /\ (\E c \in Conns : /\ pc[c] = "verdict" /\ pc'[c] = "sleep"
                             /\ att[c].nid = r)
            => rx_busy_until'[r] > rx_busy_until[r]]_vars

\* ------------------------------------------------------------ one sender
\* The dispatcher of a single session: node 0 is registered by connection 1,
\* which sends tx frames; connection 2 has registered node 255 and, before
\* it, node 1 on the sender's frequency, on another one, or not at all.  The
\* other connections only close.
Sender == CHOOSE c \in Conns : \A d \in Conns : c <= d
\* a unicast, a unicast with an sf SF_SENSITIVITY lacks, and a broadcast with
\* the ACK bit set
DispatchFrames == {<<0, 1, 7, 0>>, <<0, 1, 6, 0>>, <<0, BROADCAST, 7, 128>>}
\* above the sensitivity and within 3 dB of the SNR minimum of SF7
DispatchRssi == {-1000}
DispatchSnr == {-60}

InitDispatch ==
  /\ \E f1 \in {None, 915, 868} :
       /\ clients = IF f1 = None THEN << <<0, 1>>, <<BROADCAST, 2>> >>
                    ELSE << <<0, 1>>, <<1, 2>>, <<BROADCAST, 2>> >>
       /\ node_locations = [n \in NodeIds |->
                              IF n = 1 THEN (IF f1 = None THEN NoLoc ELSE <<18, 24>>)
                              ELSE <<0, 0>>]
       /\ node_frequency = [n \in NodeIds |-> IF n = 1 THEN f1 ELSE 915]
       /\ last_reg = [n \in NodeIds |->
                        IF n = 0 THEN 1 ELSE IF n = 1 /\ f1 = None THEN None ELSE 2]
  /\ rx_busy_until = [n \in NodeIds |-> 0]
  /\ loss_streaks = [p \in Pairs |-> 0]
  /\ drop_run = [p \in Pairs |-> 0]
  /\ active_transmissions = 0
  /\ pc = [c \in Conns |-> IF c <= 2 THEN "read" ELSE "unaccepted"]
  /\ node_id = [c \in Conns |-> IF c = 1 THEN 0 ELSE IF c = 2 THEN BROADCAST
                                ELSE None]
  /\ msg = [c \in Conns |-> NoMsg]
  /\ sender_freq = [c \in Conns |-> None]
  /\ from_loc = [c \in Conns |-> <<0, 0>>]
  /\ targets = [c \in Conns |-> <<>>]
  /\ tmp = [c \in Conns |-> 0]
  /\ att = [c \in Conns |-> NoAtt]
  /\ frames = MaxFrames
  /\ clock = 0
  /\ log = [type |-> "REGISTERED", conn |-> 2, nid |-> BROADCAST,
            loc |-> <<0, 0>>, freq |-> 915]
  /\ InitAux
  /\ InitRest

NextDispatch ==
  \/ \E t \in DispatchFrames : RecvTx(Sender, t[1], t[2], t[3], t[4])
  \/ \E c \in Conns : RecvEOF(c)
  \/ \E c \in Conns : IncLoad(c)
  \/ \E c \in Conns : IncStore(c)
  \/ \E c \in Conns : Resolve(c)
  \/ \E c \in Conns, rssi \in DispatchRssi, snr \in DispatchSnr,
        delay \in 1..MaxDelay, rangeRoll \in BOOLEAN, statRoll \in BOOLEAN :
       Eval(c, rssi, snr, delay, SnrProb, rangeRoll, statRoll)
  \/ \E c \in Conns : EvalRaise(c)
  \/ \E c \in Conns : LogDrop(c)
  \/ \E c \in Conns : Admit(c)
  \/ \E c \in Conns, ok \in BOOLEAN : Deliver(c, ok)
  \/ \E c \in Conns : DecLoad(c)
  \/ \E c \in Conns : DecStore(c)
  \/ \E c \in Conns : Unwind(c)
  \/ Tick

SpecDispatch == InitDispatch /\ [][NextDispatch]_vars

\* ------------------------------------------------------------ C12
\* C12: the resolution of a unicast tx logs INVALID_DESTINATION when the
\* destination has no entry in clients and FREQ_MISMATCH when it has one and
\* its registered frequency differs from the sender's; either way the call
\* goes to its exit with no target and leaves rx_busy_until and loss_streaks
\* as they were.
UnicastResolution ==
  [][\A c \in Conns :
       (pc[c] = "resolve" /\ pc'[c] # "resolve" /\ msg[c].dest # BROADCAST)
       => LET d == msg[c].dest
              s == msg[c].from
              registered == \E i \in DOMAIN clients : clients[i][1] = d
              dfreq == IF d \in NodeIds THEN node_frequency[d] ELSE None
              sfreq == IF s \in NodeIds THEN node_frequency[s] ELSE None
              stopped == /\ pc'[c] = "dec_load"
                         /\ targets'[c] = <<>>
                         /\ log'.type = "DROP" /\ log'.conn = c
                         /\ UNCHANGED <<rx_busy_until, loss_streaks>>
          IN  /\ ~registered
                   => stopped /\ log'.reason = "INVALID_DESTINATION"
              /\ (registered /\ dfreq # sfreq)
                   => stopped /\ log'.reason = "FREQ_MISMATCH"
              /\ (registered /\ dfreq = sfreq) => pc'[c] = "eval"]_vars

\* a unicast has just been stopped by the frequency of its destination
UnicastStoppedByFrequency ==
  /\ log.type = "DROP" /\ log.reason = "FREQ_MISMATCH"
  /\ pc[log.conn] = "dec_load" /\ msg[log.conn].dest = 1
  /\ node_frequency[1] = 868 /\ node_frequency[0] = 915
  /\ active_transmissions = 1

\* ------------------------------------------------------------ finer steps
\* Two sessions with every access to a shared table a step of its own: a
\* register frame takes the lock and makes its three stores one by one, and
\* a broadcast walks the items() iterator without the lock.
LockTxFrames == {<<0, BROADCAST, 7, 0>>, <<1, 0, 7, 0>>}
LockRssi == {-1000}
LockSnr == {-60}

NextLock ==
  \/ \E c \in Conns : Accept(c)
  \/ \E c \in Conns, r \in RegFrames : RegLock(c, r[1], r[2], r[3])
  \/ \E c \in Conns : RegClients(c)
  \/ \E c \in Conns : RegLocations(c)
  \/ \E c \in Conns : RegFrequency(c)
  \/ \E c \in Conns : RecvEOF(c)
  \/ \E c \in Conns, t \in LockTxFrames : RecvTx(c, t[1], t[2], t[3], t[4])
  \/ \E c \in Conns : IncLoad(c)
  \/ \E c \in Conns : IncStore(c)
  \/ \E c \in Conns : ResolveUnicast(c)
  \/ \E c \in Conns : IterBegin(c)
  \/ \E c \in Conns : IterNext(c)
  \/ \E c \in Conns, rssi \in LockRssi, snr \in LockSnr,
        rangeRoll \in BOOLEAN, statRoll \in BOOLEAN :
       Eval(c, rssi, snr, 1, SnrProb, rangeRoll, statRoll)
  \/ \E c \in Conns : LogDrop(c)
  \/ \E c \in Conns : Admit(c)
  \/ \E c \in Conns, ok \in BOOLEAN : Deliver(c, ok)
  \/ \E c \in Conns : DecLoad(c)
  \/ \E c \in Conns : DecStore(c)
  \/ \E c \in Conns : Unwind(c)
  \/ Tick

SpecLock == Init /\ [][NextLock]_vars

\* ------------------------------------------------------------ C13
\* the ids of a list of targets
TargetIds(t) == {t[i][1] : i \in DOMAIN t}

\* the registered nodes other than s whose frequency is that of s
Peers(s) ==
  {clients[i][1] : i \in {j \in DOMAIN clients :
                            /\ clients[j][1] # s
                            /\ node_frequency[clients[j][1]] =
                                 (IF s \in NodeIds THEN node_frequency[s] ELSE None)}}

\* C13: when the resolution of a broadcast from s ends, the targets to be
\* evaluated are exactly the registered nodes other than s on the frequency
\* of s.
BroadcastFanOut ==
  [][\A c \in Conns :
       ( /\ pc[c] \in {"resolve", "iter"} /\ pc'[c] \notin {"resolve", "iter"}
         /\ msg[c].dest = BROADCAST )
       => TargetIds(targets'[c]) = Peers(msg[c].from)]_vars

\* ------------------------------------------------------------ C14
\* the sessions that are not inside a call of the dispatcher
OutsideDispatcher ==
  {c \in Conns : pc[c] \in {"unaccepted", "read", "unwind", "closed"}}

\* C14: every call of the dispatcher leaves the in-flight counter at the value
\* it had on entry, 0 where the calls follow one another: the counter is 1
\* from the increment to the decrement and 0 once the call is left, by a
\* return of the resolution, after the last target, after a failed write or
\* by an exception.
InFlightRestored ==
  /\ OutsideDispatcher = Conns => active_transmissions = 0
  /\ (\E c \in Conns : pc[c] \in {"resolve", "eval", "verdict", "sleep",
                                  "dec_load", "dec_store"})
       => active_transmissions = 1

\* the KeyError of an unknown sf has left the dispatcher
LeftByException ==
  /\ pc[Sender] = "unwind" /\ exc[Sender] = "KeyError"
  /\ active_transmissions = 0

\* ------------------------------------------------------------ one stream
\* The lines of one client on their way to its session: connection 1 is
\* accepted and not registered, connection 2 has registered node 1 and only
\* receives or closes.  The client sends its lines whenever it likes; the
\* session reads them one at a time.
InboxLines ==
  { <<"register", 0, <<0, 0>>, 915>>, <<"tx", 0, 1, 7, 128>>,
    <<"tx", 0, BROADCAST, 7, 0>>, <<"malformed">> }
InboxRssi == {-1000}
InboxSnr == {-60}

InitInbox ==
  /\ clients = << <<1, 2>> >>
  /\ node_locations = [n \in NodeIds |-> IF n = 1 THEN <<0, 0>> ELSE NoLoc]
  /\ node_frequency = [n \in NodeIds |-> IF n = 1 THEN 915 ELSE None]
  /\ rx_busy_until = [n \in NodeIds |-> 0]
  /\ loss_streaks = [p \in Pairs |-> 0]
  /\ drop_run = [p \in Pairs |-> 0]
  /\ active_transmissions = 0
  /\ pc = [c \in Conns |-> IF c <= 2 THEN "read" ELSE "unaccepted"]
  /\ node_id = [c \in Conns |-> IF c = 2 THEN 1 ELSE None]
  /\ msg = [c \in Conns |-> NoMsg]
  /\ sender_freq = [c \in Conns |-> None]
  /\ from_loc = [c \in Conns |-> <<0, 0>>]
  /\ targets = [c \in Conns |-> <<>>]
  /\ tmp = [c \in Conns |-> 0]
  /\ att = [c \in Conns |-> NoAtt]
  /\ frames = MaxFrames
  /\ clock = 0
  /\ log = [type |-> "REGISTERED", conn |-> 2, nid |-> 1, loc |-> <<0, 0>>,
            freq |-> 915]
  /\ last_reg = [n \in NodeIds |-> IF n = 1 THEN 2 ELSE None]
  /\ InitAux
  /\ InitRest

NextInbox ==
  \/ \E l \in InboxLines : ClientSend(Sender, l)
  \/ \E c \in Conns : ReadLine(c)
  \/ \E c \in Conns : ReadEOF(c)
  \/ \E c \in Conns : IncLoad(c)
  \/ \E c \in Conns : IncStore(c)
  \/ \E c \in Conns : Resolve(c)
  \/ \E c \in Conns, rssi \in InboxRssi, snr \in InboxSnr,
        delay \in 1..MaxDelay, rangeRoll \in BOOLEAN, statRoll \in BOOLEAN :
       Eval(c, rssi, snr, delay, SnrProb, rangeRoll, statRoll)
  \/ \E c \in Conns : LogDrop(c)
  \/ \E c \in Conns : Admit(c)
  \/ \E c \in Conns, ok \in BOOLEAN : Deliver(c, ok)
  \/ \E c \in Conns : DecLoad(c)
  \/ \E c \in Conns : DecStore(c)
  \/ Tick

SpecInbox == InitInbox /\ [][NextInbox]_vars

\* ------------------------------------------------------------ C15
\* session c reads a line in this step
Reads(c) == handled'[c] # handled[c]

\* C15: reading a line that is not JSON changes nothing but the stream: the
\* session, its registration, the registry, the tables, the in-flight counter
\* and the log stay as they were and the session goes on reading.
MalformedSkipped ==
  [][\A c \in Conns :
       (Reads(c) /\ Head(inbox[c])[1] = "malformed")
       => /\ pc[c] = "read" /\ pc'[c] = "read"
          /\ inbox'[c] = Tail(inbox[c])
          /\ UNCHANGED <<clients, node_locations, node_frequency,
                         rx_busy_until, loss_streaks, active_transmissions,
                         node_id, msg, targets, att, exc, lock, log>>]_vars

\* a bad line before the register frame and one after it, and the tx frame
\* that followed them has been delivered
DeliveredAfterBadLines ==
  /\ handled[Sender] = << <<"malformed">>, <<"register", 0, <<0, 0>>, 915>>,
                          <<"malformed">>, <<"tx", 0, 1, 7, 128>> >>
  /\ log.type = "DELIVERED" /\ log.conn = Sender
  /\ DictGet(clients, 0) = Sender

\* ------------------------------------------------------------ C16
\* C16: a failed write skips its target and nothing else: the targets that
\* are left are the ones still to be evaluated, the loop goes on with the
\* next of them, no exception leaves the loop, no session is closed and the
\* only trace is the warning.
WriteFailureIsolation ==
  [][\A c \in Conns :
       ( /\ pc[c] = "sleep" /\ pc'[c] # "sleep"
         /\ log'.type = "SEND_FAILED" /\ log'.conn = c )
       => /\ targets'[c] = Tail(targets[c])
          /\ pc'[c] = IF Tail(targets[c]) = <<>> THEN "dec_load" ELSE "eval"
          /\ exc'[c] = NoExc
          /\ msg'[c] = msg[c]
          /\ \A d \in Conns \ {c} : pc'[d] = pc[d]
          /\ UNCHANGED <<clients, node_locations, node_frequency, node_id,
                         rx_busy_until, loss_streaks, active_transmissions>>]_vars

\* the write to the first target of a broadcast has failed and the second
\* target is about to be evaluated
FailedWriteThenNextTarget ==
  /\ log.type = "SEND_FAILED" /\ log.conn = Sender /\ log.nid = 1
  /\ msg[Sender].dest = BROADCAST
  /\ pc[Sender] = "eval" /\ targets[Sender] = << <<BROADCAST, 2>> >>
  /\ exc[Sender] = NoExc

\* ------------------------------------------------------------ C17
\* C17: a drop verdict writes no frame and leaves rx_busy_until as it was,
\* in the evaluation and in the step that logs the drop, and the loop goes
\* on with the next target.
DropHasNoSideEffects ==
  [][\A c \in Conns :
       /\ (pc[c] = "eval" /\ pc'[c] = "verdict" /\ att'[c].reason # NoDrop)
            => UNCHANGED <<rx_busy_until, log>>
       /\ (pc[c] = "verdict" /\ att[c].reason # NoDrop /\ pc'[c] # "verdict")
            => /\ UNCHANGED rx_busy_until
               /\ log'.type = "DROP" /\ log'.reason = att[c].reason
               /\ targets'[c] = Tail(targets[c])
               /\ pc'[c] = IF Tail(targets[c]) = <<>> THEN "dec_load"
                           ELSE "eval"]_vars

\* the first target of a broadcast has been dropped, its busy deadline is
\* the one it had, and the second target is about to be evaluated
DroppedThenNextTarget ==
  /\ log.type = "DROP" /\ log.conn = Sender /\ log.nid = 1
  /\ log.reason \in {"RANDOM_LOSS", "MARGINAL_SNR"}
  /\ msg[Sender].dest = BROADCAST
  /\ pc[Sender] = "eval" /\ targets[Sender] = << <<BROADCAST, 2>> >>
  /\ rx_busy_until[1] = 0

\* ------------------------------------------------------------ C18
\* the frame a tx line stands for
FrameOfLine(l) ==
  [type |-> l[1], from |-> l[2], dest |-> l[3], sf |-> l[4], flags |-> l[5]]

\* C18: every frame written to a node is a tx line its sender's session has
\* read, with the same type, from, destination, sf and flags, and with rssi
\* and snr as the only other fields.
TransparentForwarding ==
  log.type = "DELIVERED"
  => \E i \in DOMAIN handled[log.conn] :
       LET l == handled[log.conn][i]
       IN  /\ l[1] = "tx"
           /\ DOMAIN log.frame = DOMAIN FrameOfLine(l) \cup {"rssi", "snr"}
           /\ \A k \in DOMAIN FrameOfLine(l) : log.frame[k] = FrameOfLine(l)[k]

\* a frame with the ACK bit has been written to node 1
AckFrameForwarded ==
  /\ log.type = "DELIVERED" /\ log.nid = 1 /\ log.sock = 2
  /\ log.frame.flags = 128
  /\ <<"tx", 0, 1, 7, 128>> = handled[Sender][Len(handled[Sender])]

\* ------------------------------------------------------------ C19
\* the steps between the reading of a tx line and the return to the read loop
InProcessing(c) ==
  pc[c] \in {"inc_load", "inc_store", "resolve", "eval", "verdict", "sleep",
             "dec_load", "dec_store"}

\* C19: a session reads the oldest line of its stream, and only when the
\* line before it is done with: the session is at its read loop with no
\* frame, no target and no attempt left over, and the line read is the one
\* that is processed next.
ArrivalOrder ==
  [][\A c \in Conns :
       /\ inbox'[c] # inbox[c]
            => \/ \E l \in InboxLines : /\ inbox'[c] = Append(inbox[c], l)
                                        /\ handled'[c] = handled[c]
               \/ /\ inbox[c] # <<>>
                  /\ inbox'[c] = Tail(inbox[c])
                  /\ handled'[c] = Append(handled[c], Head(inbox[c]))
       /\ Reads(c)
            => /\ pc[c] = "read" /\ ~InProcessing(c)
               /\ msg[c] = NoMsg /\ targets[c] = <<>> /\ att[c] = NoAtt
               /\ LET l == Head(inbox[c])
                  IN  /\ l[1] = "tx"
                        => msg'[c] = [from |-> l[2], dest |-> l[3],
                                      sf |-> l[4], flags |-> l[5]]
                      /\ l[1] = "register"
                        => log' = [type |-> "REGISTERED", conn |-> c,
                                   nid |-> l[2], loc |-> l[3], freq |-> l[4]]
       /\ (InProcessing(c) /\ InProcessing(c)')
            => handled'[c] = handled[c] /\ msg'[c] = msg[c]]_vars

\* two more lines have arrived while the session sleeps through the delay
\* of its second line
LinesWaitDuringDelay ==
  /\ pc[Sender] = "sleep"
  /\ Len(handled[Sender]) = 2 /\ Len(inbox[Sender]) = 2
  /\ handled[Sender][2] = <<"tx", 0, 1, 7, 128>>
  /\ msg[Sender].flags = 128

\* ------------------------------------------------------------ C20
\* the sessions whose next step reads or writes clients, node_locations,
\* node_frequency, rx_busy_until or loss_streaks
AtSharedAccess ==
  {c \in Conns : \/ pc[c] \in {"reg_clients", "reg_locations", "reg_frequency",
                               "resolve", "iter", "eval"}
                 \/ pc[c] = "verdict" /\ att[c].reason = NoDrop}

\* the keys of a dict, in its order
KeysOf(d) == [i \in DOMAIN d |-> d[i][1]]

\* C20: a session about to read or write one of the shared tables holds the
\* registry lock, and the keys of clients do not change while a session is
\* iterating it.
RegistryLockDiscipline ==
  [][/\ \A c \in AtSharedAccess : lock = c
     /\ \A c \in Conns : pc[c] = "iter" => KeysOf(clients') = KeysOf(clients)]_vars

\* ------------------------------------------------------------ shutdown
\* The sessions of SpecRegistry with the main thread: connections are
\* accepted, register and close while interrupts arrive and shutdown() runs.
ShutdownRegFrames == {<<1, <<0, 0>>, 915>>}

NextShutdown ==
  \/ \E c \in Conns : Accept(c)
  \/ \E c \in Conns, r \in ShutdownRegFrames : Register(c, r[1], r[2], r[3])
  \/ \E c \in Conns : RecvEOF(c)
  \/ Interrupt
  \/ AcceptFails
  \/ Teardown
  \/ ShutdownComplete
  \/ SysExit
  \/ Finally
  \/ ProcessExit

SpecShutdown == Init /\ [][NextShutdown]_vars

\* ------------------------------------------------------------ C21
\* C21: however often shutdown() is invoked (by an interrupt, by another
\* interrupt while it runs, by the finally of start()), only the first
\* invocation goes past the guard, every later one changes nothing of the
\* server, and the process ends with the flag and the stop event set and the
\* listener closed.
IdempotentShutdown ==
  [][/\ teardowns' <= 1
     /\ calls' >= 1 => teardowns' = 1
     /\ (calls' > calls /\ calls >= 1)
          => UNCHANGED <<shutting_down, stop_event, server_socket, shut,
                         clients, node_locations, node_frequency, pc, lock,
                         log, teardowns, first_by>>
     /\ main' = "exited"
          => shutting_down' /\ stop_event' /\ server_socket' = "closed"]_vars

\* the process has exited after three invocations: the first interrupt, a
\* second one while shutdown() ran, and the finally of start()
ExitedAfterThreeInvocations ==
  /\ main = "exited" /\ calls = 3 /\ sigs = 2 /\ first_by = "signal"
  /\ teardowns = 1 /\ shut # {}

\* ------------------------------------------------------------ C22
\* C22: once shutdown is triggered the stop flag is set, and when shutdown
\* completes every accepted connection that has not closed has had its
\* transport closed, the clients table is empty and the listener is closed.
ShutdownOutcome ==
  /\ shutting_down => stop_event
  /\ log.type = "SHUTDOWN_COMPLETE"
       => /\ \A c \in Conns : pc[c] # "unaccepted" => ~SockOpen(c)
          /\ clients = <<>>
          /\ server_socket = "closed"

\* ------------------------------------------------------------ link budget
\* SF_SNR_RANGES[sf][1], in tenths of a dB
SfSnrMax ==
  [sf \in 7..12 |->
     CASE sf = 7 -> 100 [] sf = 8 -> 90 [] sf = 9 -> 80
       [] sf = 10 -> 70 [] sf = 11 -> 60 [] sf = 12 -> 50]

\* the default of meta.get("tx_power", TX_POWER_DBM), in dBm
TX_POWER_DBM == 23
\* -174 + 10 * math.log10(BANDWIDTH) + NOISE_FIGURE = -117.0309..., in
\* thousandths of a dB
noise_floor_dbm == -117031

\* math.dist of two locations whose distance is a whole number of km
DistanceKm(dist2) == CHOOSE r \in 0..dist2 : r * r <= dist2 /\ dist2 < (r + 1) * (r + 1)

\* Line 715, in tenths of a dB: the clamp to [-150, -35] comes first and the
\* jitter, random.uniform(-1.5, 1.5), is added to the clamped value.
\* path_loss is what compute_environmental_loss returns, at least 32 dB.
RssiOf(tx_dbm, path_loss, jitter) ==
  Min(-350, Max(-1500, tx_dbm * 10 - path_loss)) + jitter

\* compute_snr (lines 343-410) for weather 'clear', in thousandths of a dB,
\* from an rssi in tenths.  fading_seed is hash(...) % 1000, a value of
\* 0..999 that differs from process to process, and jitter is
\* random.uniform(-0.1, 0.1).  distance_km is a whole number that is at most
\* half of the SF's max range or at least the max range, so that
\* decay_progress is absent or 1.0.  No step bounds the result from below.
compute_snr(rssi, sf, distance_km, fading_seed, jitter) ==
  LET urban_noise == IF distance_km < 5 THEN 3000 - distance_km * 400 ELSE 1000
      noise_power == noise_floor_dbm + 0 + urban_noise
      processing_gain_10 == (30103 * sf) \div 100
      raw_snr == rssi * 100 - noise_power
      min_snr == SfSnrMin[sf] * 100
      max_snr == SfSnrMax[sf] * 100
      effective_snr == Min(raw_snr + processing_gain_10, max_snr)
      sf_distance_factor == 450 - (sf - 7) * 25
      distance_degradation == sf_distance_factor * distance_km
      realistic_snr == effective_snr - distance_degradation
      max_range == SfMaxRangeKm[sf]
      decayed == IF 2 * distance_km > max_range
                   THEN Min(realistic_snr, max_snr - (max_snr - min_snr))
                   ELSE realistic_snr
      fading_intensity == 2500 - (sf - 7) * 200
      fading_component == ((fading_seed * 2 - 1000) * fading_intensity) \div 1000
  IN  decayed + fading_component + jitter

\* ------------------------------------------------------------ C24, C25, C26
\* One delivery attempt with the signal computed as lines 715-718 compute it:
\* node 0 (connection 1) and node 1 (connection 2) are registered on 915 MHz,
\* at the same place or 25 km apart, and connection 2 is about to evaluate
\* its frame 1 -> 0.  The frame's sf and tx_power, the path loss, the random
\* draws, the pair's streak and the in-flight counter are drawn.
SignalLocs == {<<0, 0>>, <<15, 20>>}
SignalInflight == {0, 5, 10, 11, 20}
SignalTx == {5, TX_POWER_DBM}
\* path losses in tenths of a dB: the one of two nodes at the same place in
\* clear weather, a middle one, and the one of 25 km of heavy rain behind
\* concrete
SignalPathLoss == {542, 1400, 2312}
SignalRssiJitter == {-15, 0, 15}
SignalFadingSeed == {0, 500, 999}
SignalSnrJitter == {-100, 0, 100}

InitSignal ==
  /\ clients = << <<0, 1>>, <<1, 2>> >>
  /\ \E l \in SignalLocs :
       /\ node_locations = [n \in NodeIds |->
                              IF n = 0 THEN <<0, 0>> ELSE IF n = 1 THEN l ELSE NoLoc]
       /\ from_loc = [c \in Conns |-> IF c = 2 THEN l ELSE <<0, 0>>]
  /\ node_frequency = [n \in NodeIds |-> IF n \in {0, 1} THEN 915 ELSE None]
  /\ rx_busy_until = [n \in NodeIds |-> 0]
  /\ \E k \in 0..MaxStreak :
       /\ loss_streaks = [p \in Pairs |-> IF p = <<1, 0>> THEN k ELSE 0]
       /\ drop_run = [p \in Pairs |-> IF p = <<1, 0>> THEN k ELSE 0]
  /\ active_transmissions \in SignalInflight
  /\ pc = [c \in Conns |-> IF c = 1 THEN "read" ELSE IF c = 2 THEN "eval"
                           ELSE "unaccepted"]
  /\ node_id = [c \in Conns |-> IF c = 1 THEN 0 ELSE IF c = 2 THEN 1 ELSE None]
  /\ \E sf \in 7..12 :
       msg = [c \in Conns |-> IF c = 2 THEN [from |-> 1, dest |-> 0, sf |-> sf,
                                              flags |-> 0]
                              ELSE NoMsg]
  /\ sender_freq = [c \in Conns |-> IF c = 2 THEN 915 ELSE None]
  /\ targets = [c \in Conns |-> IF c = 2 THEN << <<0, 1>> >> ELSE <<>>]
  /\ tmp = [c \in Conns |-> 0]
  /\ att = [c \in Conns |-> NoAtt]
  /\ frames = 0
  /\ clock = 0
  /\ log = [type |-> "REGISTERED", conn |-> 2, nid |-> 1,
            loc |-> node_locations[1], freq |-> 915]
  /\ last_reg = [n \in NodeIds |-> IF n = 0 THEN 1 ELSE IF n = 1 THEN 2 ELSE None]
  /\ InitAux
  /\ InitRest

\* lines 708-724 of one target: the rssi of line 715, the snr of line 718
\* (compared and logged in tenths, rounded down) and the verdict, with the
\* terms of the probability should_drop computed kept for inspection
EvalSignal(c, tx_dbm, path_loss, rssi_jitter, fading_seed, snr_jitter, rangeRoll, statRoll) ==
  /\ pc[c] = "eval"
  /\ LET to_loc == LocOf(node_locations, Head(targets[c])[1])
         distance_km == DistanceKm(Dist2(from_loc[c], to_loc))
         rssi == RssiOf(tx_dbm, path_loss, rssi_jitter)
         snr == compute_snr(rssi, msg[c].sf, distance_km, fading_seed, snr_jitter)
         r == Verdict(c, rssi, snr \div 100, SnrProb, rangeRoll, statRoll)
     IN  /\ Evaluate(c, rssi, snr \div 100, MaxDelay, r)
         /\ prob' = [prob EXCEPT ![c] = r.prob]

NextSignal ==
  \/ \E c \in Conns, tx_dbm \in SignalTx, path_loss \in SignalPathLoss,
        rssi_jitter \in SignalRssiJitter, fading_seed \in SignalFadingSeed,
        snr_jitter \in SignalSnrJitter, rangeRoll \in BOOLEAN,
        statRoll \in BOOLEAN :
       EvalSignal(c, tx_dbm, path_loss, rssi_jitter, fading_seed, snr_jitter,
                  rangeRoll, statRoll)
  \/ \E c \in Conns : LogDrop(c)
  \/ \E c \in Conns : Admit(c)

SpecSignal == InitSignal /\ [][NextSignal]_vars

\* C24: the RSSI a verdict is made of, and the one stamped on the frame that
\* is admitted for delivery, lies in [-150, -35] dBm.
RssiWithinBounds ==
  \A c \in Conns :
    pc[c] \in {"verdict", "sleep"} => att[c].rssi \in -1500..-350

\* C25: the SNR of an attempt is at least snr_min(sf) minus the fading
\* amplitude 2.5 - 0.2 * (sf - 7) dB minus the 0.1 dB jitter.
SnrFloor ==
  \A c \in Conns :
    pc[c] \in {"verdict", "sleep"}
    => att[c].snr >= SfSnrMin[msg[c].sf] - (25 - 2 * (msg[c].sf - 7)) - 1

MaxCalls == 2        \* calls the application makes on a radio
MaxBuf == 2          \* frames waiting in a radio's socket

ack_retries == 5
DEFAULT_SPREAD_FACTOR == 7

NoFrame == [destination |-> None, node |-> None, identifier |-> None,
            flags |-> None]

\* the state of a radio after __init__ (lines 40-70) and of its application,
\* which has made no call; heard are the frames receive has returned to it
NewRadio(n) ==
  [node_id |-> n, sequence_number |-> 0, flags |-> 0, destination |-> None,
   identifier |-> 0, retries |-> 0, rpc |-> "idle", rxbuf |-> <<>>,
   op |-> NoOp, ret |-> NoRet, mark |-> 0, seen |-> 0, ncalls |-> 0,
   heard |-> {}]

Radios == DOMAIN radio

\* every line connection c has carried, oldest first
Sent(c) == handled[c] \o inbox[c]

\* the lines radio c has sent since its application's last call began
SentByCall(c) == SubSeq(Sent(c), radio[c].mark + 1, Len(Sent(c)))

\* f & 0x80 and f | 0x80 for f in 0..255
HasAckBit(f) == (f \div 128) % 2 = 1
WithAckBit(f) == IF HasAckBit(f) THEN f ELSE f + 128

\* The line of json.dumps(msg) (lines 106-117 and 183-200) as the session
\* parses it: <<type, from, destination, sf, flags, identifier, node>>.  The
\* meta of a radio has no "sf", for which the server takes
\* DEFAULT_SPREAD_FACTOR.
TxLine(from_id, destination, node, identifier, flags) ==
  <<"tx", from_id, destination, DEFAULT_SPREAD_FACTOR, flags, identifier, node>>

\* the header send() builds from its arguments and the attributes (99-104)
send(r, destination, identifier, flags) ==
  TxLine(r.node_id,
         IF destination # None THEN destination ELSE r.destination,
         r.node_id,
         IF identifier # None THEN identifier ELSE r.identifier,
         IF flags # None THEN flags ELSE r.flags)

\* _send_ack (lines 183-200)
send_ack(r, to_node, identifier, original_flags) ==
  TxLine(r.node_id, to_node, r.node_id, identifier, WithAckBit(original_flags))

\* the test of line 148 with the ACK bit left out of it
ack_wanted_ignoring_ack_bit(with_ack, header) ==
  with_ack /\ header.destination # BROADCAST

\* the test of line 148
ack_wanted(with_ack, header) ==
  with_ack /\ ~HasAckBit(header.flags) /\ header.destination # BROADCAST

\* sock.recv(4096) and json.loads (lines 137-138): recv returns everything
\* that is waiting, a timeout raises when nothing is, and json.loads raises
\* on more than one frame; either exception makes receive return None
Decoded(buf) == IF Len(buf) = 1 THEN buf[1] ELSE NoFrame

\* receive (lines 133-172): the frame it decodes, or NoFrame, and the lines
\* it sends
receive(r, with_ack) ==
  LET header == Decoded(r.rxbuf)
  IN  [got |-> header,
       out |-> IF header # NoFrame /\ ack_wanted(with_ack, header)
                 THEN << send_ack(r, header.node, header.identifier,
                                  header.flags) >>
                 ELSE <<>>]

\* what the server side keeps when a radio takes a step
serverVars == <<regVars, tabVars, active_transmissions, pc, node_id, locVars,
                clock, log, last_reg, drop_run, auxVars, handled, mainVars,
                prob>>

\* the application begins a call on an idle radio
BeginCall(c) ==
  /\ c \in Radios
  /\ radio[c].rpc = "idle"
  /\ radio[c].ncalls < MaxCalls

\* the server writes frame f to the socket of radio c (server line 744)
Wire(c, f) ==
  /\ c \in Radios
  /\ Len(radio[c].rxbuf) < MaxBuf
  /\ radio' = [radio EXCEPT ![c].rxbuf = Append(@, f)]
  /\ UNCHANGED <<serverVars, inbox, frames>>

\* the application assigns the destination attribute
SetDestination(c, d) ==
  /\ c \in Radios
  /\ radio[c].rpc = "idle"
  /\ radio[c].destination # d
  /\ radio' = [radio EXCEPT ![c].destination = d]
  /\ UNCHANGED <<serverVars, inbox, frames>>

\* send(data, destination=d), d = None when the argument is left out
RadioSend(c, d) ==
  /\ BeginCall(c)
  /\ inbox' = [inbox EXCEPT ![c] = Append(@, send(radio[c], d, None, None))]
  /\ radio' = [radio EXCEPT ![c].op = [name |-> "send", destination |-> d],
                            ![c].ret = NoRet,
                            ![c].mark = Len(Sent(c)),
                            ![c].ncalls = @ + 1]
  /\ UNCHANGED <<serverVars, frames>>

\* receive(with_ack=..., with_header=True) called by the application
RadioReceive(c, with_ack) ==
  /\ BeginCall(c)
  /\ LET rx == receive(radio[c], with_ack)
     IN  /\ inbox' = [inbox EXCEPT ![c] = @ \o rx.out]
         /\ radio' = [radio EXCEPT ![c].rxbuf = <<>>,
                                   ![c].op = [name |-> "receive",
                                              with_ack |-> with_ack,
                                              got |-> rx.got],
                                   ![c].ret = IF rx.got = NoFrame THEN "None"
                                              ELSE "bytearray",
                                   ![c].mark = Len(Sent(c)),
                                   ![c].ncalls = @ + 1,
                                   ![c].heard = IF rx.got = NoFrame THEN @
                                                ELSE @ \cup {rx.got}]
  /\ UNCHANGED <<serverVars, frames>>

\* send_with_ack, lines 212-214
SendWithAckBegin(c) ==
  /\ BeginCall(c)
  /\ LET seq == (radio[c].sequence_number + 1) % 256
     IN  radio' = [radio EXCEPT ![c].sequence_number = seq,
                                ![c].identifier = seq,
                                ![c].retries = ack_retries,
                                ![c].rpc = "swa_loop",
                                ![c].op = [name |-> "send_with_ack",
                                           prev |-> radio[c].sequence_number,
                                           destination |-> radio[c].destination],
                                ![c].ret = NoRet,
                                ![c].mark = Len(Sent(c)),
                                ![c].seen = 0,
                                ![c].ncalls = @ + 1]
  /\ UNCHANGED <<serverVars, inbox, frames>>

\* the loop test and lines 217-220: one transmission, after which a
\* broadcast returns True
SendWithAckSend(c) ==
  /\ c \in Radios
  /\ radio[c].rpc = "swa_loop"
  /\ LET r == radio[c]
     IN  IF r.retries > 0
           THEN /\ inbox' = [inbox EXCEPT ![c] =
                               Append(@, send(r, None, r.identifier, r.flags))]
                /\ radio' = IF r.destination = BROADCAST
                              THEN [radio EXCEPT ![c].rpc = "idle",
                                                 ![c].ret = "True"]
                              ELSE [radio EXCEPT ![c].rpc = "swa_recv"]
           ELSE /\ inbox' = inbox
                /\ radio' = [radio EXCEPT ![c].rpc = "idle",
                                          ![c].ret = "False"]
  /\ UNCHANGED <<serverVars, frames>>

\* the retries that are left after an ACK window that brought no ACK
retries_kept(n) == n

retries_left(n) == n - 1

\* lines 222-228: one ACK window, then True or one retry less
SendWithAckRecv(c) ==
  /\ c \in Radios
  /\ radio[c].rpc = "swa_recv"
  /\ LET r == radio[c]
         rx == receive(r, FALSE)
         ack == rx.got
         matching == /\ ack # NoFrame /\ HasAckBit(ack.flags)
                     /\ ack.identifier = r.identifier
     IN  /\ inbox' = [inbox EXCEPT ![c] = @ \o rx.out]
         /\ radio' = IF matching
                       THEN [radio EXCEPT ![c].rxbuf = <<>>,
                                          ![c].seen = @ + 1,
                                          ![c].rpc = "idle",
                                          ![c].ret = "True"]
                       ELSE [radio EXCEPT ![c].rxbuf = <<>>,
                                          ![c].retries = retries_left(@),
                                          ![c].rpc = "swa_loop"]
  /\ UNCHANGED <<serverVars, frames>>

\* ------------------------------------------------------------ C28, C29, C30
\* One radio and its application: node 0 on connection 1, registered, with
\* the sequence number of a radio that has made no call, or 255 calls.  The
\* application assigns the destination, calls send_with_ack and receive; the
\* server writes frames of a peer to the socket whenever it likes.
\* a data frame for node 0, one with another flag bit, a broadcast, and the
\* ACKs of identifier 1 and of identifier 0
RadioFrames ==
  { [destination |-> 0, node |-> 1, identifier |-> 1, flags |-> 0],
    [destination |-> 0, node |-> 1, identifier |-> 1, flags |-> 1],
    [destination |-> BROADCAST, node |-> 1, identifier |-> 1, flags |-> 0],
    [destination |-> 0, node |-> 1, identifier |-> 1, flags |-> 128],
    [destination |-> 0, node |-> 1, identifier |-> 0, flags |-> 128] }
RadioDestinations == {1, BROADCAST}
RadioSequenceNumbers == {0, 255}

InitRadio ==
  /\ clients = << <<0, 1>> >>
  /\ node_locations = [n \in NodeIds |-> IF n = 0 THEN <<0, 0>> ELSE NoLoc]
  /\ node_frequency = [n \in NodeIds |-> IF n = 0 THEN 915 ELSE None]
  /\ rx_busy_until = [n \in NodeIds |-> 0]
  /\ loss_streaks = [p \in Pairs |-> 0]
  /\ drop_run = [p \in Pairs |-> 0]
  /\ active_transmissions = 0
  /\ pc = [c \in Conns |-> IF c = 1 THEN "read" ELSE "unaccepted"]
  /\ node_id = [c \in Conns |-> IF c = 1 THEN 0 ELSE None]
  /\ msg = [c \in Conns |-> NoMsg]
  /\ sender_freq = [c \in Conns |-> None]
  /\ from_loc = [c \in Conns |-> <<0, 0>>]
  /\ targets = [c \in Conns |-> <<>>]
  /\ tmp = [c \in Conns |-> 0]
  /\ att = [c \in Conns |-> NoAtt]
  /\ frames = 0
  /\ clock = 0
  /\ log = [type |-> "REGISTERED", conn |-> 1, nid |-> 0, loc |-> <<0, 0>>,
            freq |-> 915]
  /\ last_reg = [n \in NodeIds |-> IF n = 0 THEN 1 ELSE None]
  /\ lock = None
  /\ reg = [c \in Conns |-> <<>>]
  /\ iter = [c \in Conns |-> NoIter]
  /\ exc = [c \in Conns |-> NoExc]
  /\ inbox = [c \in Conns |-> <<>>]
  /\ handled = [c \in Conns |->
                  IF c = 1 THEN << <<"register", 0, <<0, 0>>, 915>> >> ELSE <<>>]
  /\ InitMain
  /\ prob = [c \in Conns |-> NoProb]
  /\ \E q \in RadioSequenceNumbers :
       radio = [c \in {1} |-> [NewRadio(0) EXCEPT !.sequence_number = q,
                                                  !.identifier = q]]

\* the frames a radio in send_with_ack tells apart: no ACK, the ACK of
\* identifier 1 and the ACK of identifier 0
AckFrames == {f \in RadioFrames : f.flags # 1 /\ f.destination = 0}

\* the application only calls send_with_ack
NextAck ==
  \/ \E c \in Conns, f \in AckFrames : Wire(c, f)
  \/ \E c \in Conns, d \in RadioDestinations : SetDestination(c, d)
  \/ \E c \in Conns : SendWithAckBegin(c)
  \/ \E c \in Conns : SendWithAckSend(c)
  \/ \E c \in Conns : SendWithAckRecv(c)

SpecAck == InitRadio /\ [][NextAck]_vars

\* the application only calls receive
NextReceive ==
  \/ \E c \in Conns, f \in RadioFrames : Wire(c, f)
  \/ \E c \in Conns, with_ack \in BOOLEAN : RadioReceive(c, with_ack)

SpecReceive == InitRadio /\ [][NextReceive]_vars

\* the radio's steps are those of a sequential program: each send, each
\* receive with its timeout and each sleep comes to an end
FairAck ==
  /\ SpecAck
  /\ \A c \in Conns : WF_vars(SendWithAckSend(c)) /\ WF_vars(SendWithAckRecv(c))

\* a call of send_with_ack on radio c has returned
Returned(c) ==
  c \in Radios /\ radio[c].op.name = "send_with_ack" /\ radio[c].rpc = "idle"

\* C28: send_with_ack returns True if and only if one of its ACK windows
\* brought a frame with bit 0x80 set and the packet's identifier, and False
\* in every other case.
AckResult ==
  \A c \in Conns :
    Returned(c)
    => /\ radio[c].ret \in {"True", "False"}
       /\ radio[c].ret = "True" <=> radio[c].seen > 0

\* the transmissions a call has made by the time it has `retries` left
Transmissions(r) ==
  ack_retries - r.retries + (IF r.rpc = "swa_recv" \/ r.seen > 0 THEN 1 ELSE 0)

\* what is left of the loop: two steps for each retry, one more before the send
StepsLeft(r) ==
  IF r.rpc = "idle" THEN 0
  ELSE 2 * r.retries + (IF r.rpc = "swa_loop" THEN 1 ELSE 0)

\* the transmissions of a call to a unicast destination
BoundedRetryState ==
  \A c \in Conns :
    (c \in Radios /\ radio[c].op.name = "send_with_ack"
       /\ radio[c].op.destination # BROADCAST)
    => LET r == radio[c]
           out == SentByCall(c)
       IN  /\ r.identifier = (r.op.prev + 1) % 256
           /\ Len(out) <= ack_retries
           /\ Len(out) = Transmissions(r)
           /\ \A i \in DOMAIN out :
                out[i] = TxLine(r.node_id, r.op.destination, r.node_id,
                                r.identifier, r.flags)
           /\ r.rpc # "idle" => r.seen = 0
           /\ r.seen > 0 => r.ret = "True"
           /\ (r.rpc = "idle" /\ r.seen = 0)
                => Len(out) = ack_retries /\ r.ret = "False"

\* a step of the loop leaves fewer steps, a frame that arrives as many
BoundedRetryStep ==
  \A c \in Conns :
    (c \in Radios /\ radio[c].rpc # "idle")
    => IF radio'[c].rpc = radio[c].rpc
         THEN StepsLeft(radio'[c]) = StepsLeft(radio[c])
         ELSE StepsLeft(radio'[c]) < StepsLeft(radio[c])

\* C29: every call of send_with_ack terminates; to a unicast destination it
\* transmits at most ack_retries times, exactly ack_retries times and then
\* returns False when no matching ACK comes, stops as soon as one is seen,
\* and every transmission of the call carries the same identifier, the
\* previous sequence number plus 1 modulo 256.
BoundedRetry ==
  /\ []BoundedRetryState
  /\ [][BoundedRetryStep]_vars
  /\ \A c \in Conns :
       (c \in Radios /\ radio[c].rpc # "idle") ~> (c \in Radios /\ radio[c].rpc = "idle")

\* a call to node 1 that began at sequence number 255 has sent identifier 0
\* ack_retries times and returned False
FiveTransmissionsThenFalse ==
  \E c \in Conns :
    /\ Returned(c) /\ radio[c].op.prev = 255 /\ radio[c].op.destination = 1
    /\ radio[c].ret = "False"
    /\ Len(SentByCall(c)) = ack_retries
    /\ \A i \in DOMAIN SentByCall(c) : SentByCall(c)[i][6] = 0

\* C30: a receive call that decodes a frame sends exactly one ACK if
\* with_ack is set, the frame has not bit 0x80 set and its destination is
\* not 255, and sends nothing otherwise; the ACK is a tx frame to the frame's
\* source node with the frame's identifier and its flags with bit 0x80 set.
AckGeneration ==
  \A c \in Conns :
    (c \in Radios /\ radio[c].op.name = "receive")
    => LET r == radio[c]
           f == r.op.got
           out == SentByCall(c)
       IN  IF /\ f # NoFrame /\ r.op.with_ack
              /\ ~HasAckBit(f.flags) /\ f.destination # BROADCAST
             THEN /\ Len(out) = 1
                  /\ out[1][1] = "tx" /\ out[1][2] = r.node_id
                  /\ out[1][3] = f.node
                  /\ out[1][6] = f.identifier
                  /\ HasAckBit(out[1][5])
                  /\ out[1][5] % 128 = f.flags % 128
             ELSE out = <<>>

\* the radio has acknowledged a data frame with flags 1 and then, in its
\* next call, read an ACK without answering it
AckedDataThenReadAck ==
  \E c \in Conns :
    /\ c \in Radios /\ radio[c].op.name = "receive" /\ radio[c].op.with_ack
    /\ radio[c].op.got # NoFrame /\ HasAckBit(radio[c].op.got.flags)
    /\ SentByCall(c) = <<>>
    /\ Sent(c)[Len(Sent(c))] = TxLine(0, 1, 0, 1, 129)

\* ------------------------------------------------------------ C27
\* A radio and the server: node 0 is the radio on connection 1, node 1 a
\* peer on connection 2, both registered on 915 MHz at the same place.  The
\* radio's destination attribute is never assigned; its application calls
\* send with a destination or without one, and the session of connection 1
\* dispatches every line.
LinkDestinations == {None, 1, BROADCAST}
LinkRssi == {-1000}
LinkSnr == {-60}

InitLink ==
  /\ clients = << <<0, 1>>, <<1, 2>> >>
  /\ node_locations = [n \in NodeIds |-> IF n \in {0, 1} THEN <<0, 0>> ELSE NoLoc]
  /\ node_frequency = [n \in NodeIds |-> IF n \in {0, 1} THEN 915 ELSE None]
  /\ rx_busy_until = [n \in NodeIds |-> 0]
  /\ loss_streaks = [p \in Pairs |-> 0]
  /\ drop_run = [p \in Pairs |-> 0]
  /\ active_transmissions = 0
  /\ pc = [c \in Conns |-> IF c <= 2 THEN "read" ELSE "unaccepted"]
  /\ node_id = [c \in Conns |-> IF c = 1 THEN 0 ELSE IF c = 2 THEN 1 ELSE None]
  /\ msg = [c \in Conns |-> NoMsg]
  /\ sender_freq = [c \in Conns |-> None]
  /\ from_loc = [c \in Conns |-> <<0, 0>>]
  /\ targets = [c \in Conns |-> <<>>]
  /\ tmp = [c \in Conns |-> 0]
  /\ att = [c \in Conns |-> NoAtt]
  /\ frames = 0
  /\ clock = 0
  /\ log = [type |-> "REGISTERED", conn |-> 2, nid |-> 1, loc |-> <<0, 0>>,
            freq |-> 915]
  /\ last_reg = [n \in NodeIds |-> IF n = 0 THEN 1 ELSE IF n = 1 THEN 2 ELSE None]
  /\ lock = None
  /\ reg = [c \in Conns |-> <<>>]
  /\ iter = [c \in Conns |-> NoIter]
  /\ exc = [c \in Conns |-> NoExc]
  /\ inbox = [c \in Conns |-> <<>>]
  /\ handled = [c \in Conns |->
                  IF c = 1 THEN << <<"register", 0, <<0, 0>>, 915>> >>
                  ELSE IF c = 2 THEN << <<"register", 1, <<0, 0>>, 915>> >>
                  ELSE <<>>]
  /\ InitMain
  /\ prob = [c \in Conns |-> NoProb]
  /\ radio = [c \in {1} |-> NewRadio(0)]

NextLink ==
  \/ \E c \in Conns, d \in LinkDestinations : RadioSend(c, d)
  \/ \E c \in Conns : ReadLine(c)
  \/ \E c \in Conns : IncLoad(c)
  \/ \E c \in Conns : IncStore(c)
  \/ \E c \in Conns : Resolve(c)
  \/ \E c \in Conns, rssi \in LinkRssi, snr \in LinkSnr,
        rangeRoll \in BOOLEAN, statRoll \in BOOLEAN :
       Eval(c, rssi, snr, MaxDelay, SnrProb, rangeRoll, statRoll)
  \/ \E c \in Conns : LogDrop(c)
  \/ \E c \in Conns : Admit(c)
  \/ \E c \in Conns, ok \in BOOLEAN : Deliver(c, ok)
  \/ \E c \in Conns : DecLoad(c)
  \/ \E c \in Conns : DecStore(c)
  \/ Tick

SpecLink == InitLink /\ [][NextLink]_vars

\* C27: the line that send() without a destination argument puts on the wire
\* of a radio whose destination was never assigned has destination 255, the
\* session dispatches it as a broadcast, and it is not dropped as a frame
\* to a node that is not registered.
DefaultDestinationIsBroadcast ==
  \A c \in Conns :
    ( /\ c \in Radios /\ radio[c].destination = None
      /\ radio[c].ncalls = 1
      /\ radio[c].op.name = "send" /\ radio[c].op.destination = None )
    => /\ \A i \in DOMAIN SentByCall(c) : SentByCall(c)[i][3] = BROADCAST
       /\ pc[c] = "resolve" => msg[c].dest = BROADCAST
       /\ (log.type = "DROP" /\ log.conn = c)
            => log.reason # "INVALID_DESTINATION"

\* ------------------------------------------------------------ C31
\* the session of connection a ends in this step
Closes(a) == pc[a] # "closed" /\ pc'[a] = "closed"

\* C31: when a session closes, every id whose entry in the clients table is
\* the transport of another connection that is still open keeps that
\* transport, its location and its frequency.
StaleCloseKeepsReplacement ==
  [][\A a \in Conns : Closes(a) =>
       \A n \in NodeIds :
         ( /\ DictHas(clients, n)
           /\ DictGet(clients, n) # a
           /\ pc'[DictGet(clients, n)] # "closed" )
         => /\ DictGet(clients', n) = DictGet(clients, n)
            /\ node_locations'[n] = node_locations[n]
            /\ node_frequency'[n] = node_frequency[n]]_vars

\* ------------------------------------------------------------ C32
\* A KeyError raised inside the read loop of _handle_client: nothing between
\* the `for` and the `finally` catches it, so the loop is left for the
\* finally block.
RaiseInLoop(c) ==
  /\ pc[c] = "read"
  /\ frames > 0
  /\ frames' = frames - 1
  /\ exc' = [exc EXCEPT ![c] = "KeyError"]
  /\ pc' = [pc EXCEPT ![c] = "unwind"]
  /\ UNCHANGED <<regVars, tabVars, active_transmissions, locVars, clock, log,
                 last_reg, drop_run, lock, reg, iter, netVars, restVars>>

\* a JSON object without "type": `msg["type"]` (line 629) raises KeyError
RecvUntyped(c) ==
  /\ RaiseInLoop(c)
  /\ UNCHANGED node_id

\* a register frame without "node_id": `msg["node_id"]` (line 630) raises
\* before the local node_id is assigned
RecvRegisterWithoutNodeId(c) ==
  /\ RaiseInLoop(c)
  /\ UNCHANGED node_id

\* a register frame without "frequency": line 630 has assigned the local
\* node_id when `msg["frequency"]` (line 632) raises
RecvRegisterWithoutFrequency(c, n) ==
  /\ RaiseInLoop(c)
  /\ node_id' = [node_id EXCEPT ![c] = n]

\* The sessions of the single sender's dispatcher, with the frames json.loads
\* accepts and the handler cannot read.
NextSession ==
  \/ \E t \in DispatchFrames : RecvTx(Sender, t[1], t[2], t[3], t[4])
  \/ \E c \in Conns : RecvUntyped(c)
  \/ \E c \in Conns : RecvRegisterWithoutNodeId(c)
  \/ \E c \in Conns, n \in NodeIds : RecvRegisterWithoutFrequency(c, n)
  \/ \E c \in Conns : RecvEOF(c)
  \/ \E c \in Conns : IncLoad(c)
  \/ \E c \in Conns : IncStore(c)
  \/ \E c \in Conns : Resolve(c)
  \/ \E c \in Conns, rssi \in DispatchRssi, snr \in DispatchSnr,
        delay \in 1..MaxDelay, rangeRoll \in BOOLEAN, statRoll \in BOOLEAN :
       Eval(c, rssi, snr, delay, SnrProb, rangeRoll, statRoll)
  \/ \E c \in Conns : EvalRaise(c)
  \/ \E c \in Conns : LogDrop(c)
  \/ \E c \in Conns : Admit(c)
  \/ \E c \in Conns, ok \in BOOLEAN : Deliver(c, ok)
  \/ \E c \in Conns : DecLoad(c)
  \/ \E c \in Conns : DecStore(c)
  \/ \E c \in Conns : Unwind(c)
  \/ Tick

SpecSession == InitDispatch /\ [][NextSession]_vars

\* C32: a session reaches its end only from the read loop at end of input,
\* never while an exception raised by the handling of a decoded frame is
\* leaving the loop, and a step that handles a frame removes no entry of the
\* clients table.
OnlyEofEndsSession ==
  [][\A c \in Conns :
       /\ Closes(c) => (pc[c] = "read" /\ exc[c] = NoExc)
       /\ (~Closes(c) /\ pc[c] # pc'[c]) =>
            \A n \in NodeIds : DictHas(clients, n) => DictHas(clients', n)]_vars

\* ------------------------------------------------------------ C33
\* C33: every transport stored in the clients table is the connection of a
\* session that has not closed.
NoClosedTransportRegistered ==
  \A i \in DOMAIN clients : pc[clients[i][2]] # "closed"

\* ------------------------------------------------------------ C34
\* Two radios and the server between them.  The header a radio reads in a
\* forwarded frame is the meta of the tx line its sender wrote: the server
\* forwards the dict of the line with rssi and snr added (lines 736-744).
HeaderOf(l) ==
  [destination |-> l[3], node |-> l[7], identifier |-> l[6], flags |-> l[5]]

\* Deliver when the target's socket belongs to a radio: the frame of the line
\* the session is dispatching, the newest it has read, is appended to what
\* the radio has not read yet (lines 740-749)
DeliverToRadio(c, ok) ==
  /\ pc[c] = "sleep"
  /\ clock >= att[c].now + att[c].delay
  /\ ok => /\ SockOpen(att[c].sock)
           /\ att[c].sock \in Radios
           /\ Len(radio[att[c].sock].rxbuf) < MaxBuf
  /\ log' = IF ok
              THEN [type |-> "DELIVERED", conn |-> c, from |-> msg[c].from,
                    nid |-> att[c].nid, sock |-> att[c].sock,
                    sfreq |-> FreqOf(node_frequency, msg[c].from),
                    rfreq |-> FreqOf(node_frequency, att[c].nid),
                    frame |-> Forwarded(msg[c], att[c].rssi, att[c].snr)]
              ELSE [type |-> "SEND_FAILED", conn |-> c, from |-> msg[c].from,
                    nid |-> att[c].nid, sock |-> att[c].sock]
  /\ radio' = IF ok
                THEN [radio EXCEPT ![att[c].sock].rxbuf =
                        Append(@, HeaderOf(NewestLine(handled[c])))]
                ELSE radio
  /\ att' = [att EXCEPT ![c] = NoAtt]
  /\ targets' = [targets EXCEPT ![c] = Tail(@)]
  /\ pc' = [pc EXCEPT ![c] = AfterTarget(Tail(targets[c]))]
  /\ UNCHANGED <<regVars, tabVars, active_transmissions, node_id, msg,
                 sender_freq, from_loc, tmp, frames, clock, last_reg,
                 drop_run, auxVars, netVars, mainVars, prob>>

\* Node 0 is the radio on connection 1 and node 1 the radio on connection 2,
\* both registered on 915 MHz at the same place; no node 2 is connected.
\* Node 0, whose application has assigned the destination, calls
\* send_with_ack and node 1 calls receive(with_ack=True).
Caller == Sender
Listener == CHOOSE c \in Conns \ {Caller} : \A d \in Conns \ {Caller} : c <= d
\* the id of a node that is not connected
Offline == CHOOSE n \in 0..254 : n \notin NodeIds
NetDestinations == {1, Offline}
NetCalls == 1        \* calls of send_with_ack node 0 makes from here on
NetRssi == {-1000}
NetSnr == {-60}

\* the second copy of the frame of node 0's first send_with_ack, to node 1
\* with identifier 1
StaleCopy == [destination |-> 1, node |-> 0, identifier |-> 1, flags |-> 0]

\* Either both radios are new, or node 0 has made 256 calls of send_with_ack
\* and sequence_number is 0 again ((n + 1) & 0xFF, line 212): the first call
\* went to node 1, which read and acknowledged its first copy after the first
\* ACK window had closed and has not read the second copy since; the others
\* went to node 2, where its destination still points, and returned False.
\* Only the lines of the registrations are kept of what the connections have
\* carried.
InitNet ==
  /\ clients = << <<0, 1>>, <<1, 2>> >>
  /\ node_locations = [n \in NodeIds |-> IF n \in {0, 1} THEN <<0, 0>> ELSE NoLoc]
  /\ node_frequency = [n \in NodeIds |-> IF n \in {0, 1} THEN 915 ELSE None]
  /\ rx_busy_until = [n \in NodeIds |-> 0]
  /\ loss_streaks = [p \in Pairs |-> 0]
  /\ drop_run = [p \in Pairs |-> 0]
  /\ active_transmissions = 0
  /\ pc = [c \in Conns |-> IF c <= 2 THEN "read" ELSE "unaccepted"]
  /\ node_id = [c \in Conns |-> IF c = 1 THEN 0 ELSE IF c = 2 THEN 1 ELSE None]
  /\ msg = [c \in Conns |-> NoMsg]
  /\ sender_freq = [c \in Conns |-> None]
  /\ from_loc = [c \in Conns |-> <<0, 0>>]
  /\ targets = [c \in Conns |-> <<>>]
  /\ tmp = [c \in Conns |-> 0]
  /\ att = [c \in Conns |-> NoAtt]
  /\ frames = 0
  /\ clock = 0
  /\ log = [type |-> "REGISTERED", conn |-> 2, nid |-> 1, loc |-> <<0, 0>>,
            freq |-> 915]
  /\ last_reg = [n \in NodeIds |-> IF n = 0 THEN 1 ELSE IF n = 1 THEN 2 ELSE None]
  /\ lock = None
  /\ reg = [c \in Conns |-> <<>>]
  /\ iter = [c \in Conns |-> NoIter]
  /\ exc = [c \in Conns |-> NoExc]
  /\ inbox = [c \in Conns |-> <<>>]
  /\ handled = [c \in Conns |->
                  IF c = 1 THEN << <<"register", 0, <<0, 0>>, 915>> >>
                  ELSE IF c = 2 THEN << <<"register", 1, <<0, 0>>, 915>> >>
                  ELSE <<>>]
  /\ InitMain
  /\ prob = [c \in Conns |-> NoProb]
  /\ \E wrapped \in BOOLEAN, d \in NetDestinations :
       /\ wrapped => d = Offline
       /\ radio = [c \in {Caller, Listener} |->
                     IF c = Caller THEN [NewRadio(0) EXCEPT !.destination = d]
                     ELSE IF wrapped
                       THEN [NewRadio(1) EXCEPT !.rxbuf = <<StaleCopy>>,
                                                !.heard = {StaleCopy}]
                       ELSE NewRadio(1)]

NextNet ==
  \/ radio[Caller].ncalls < NetCalls /\ SendWithAckBegin(Caller)
  \/ SendWithAckSend(Caller)
  \/ SendWithAckRecv(Caller)
  \/ RadioReceive(Listener, TRUE)
  \/ \E c \in Conns : ReadLine(c)
  \/ \E c \in Conns : IncLoad(c)
  \/ \E c \in Conns : IncStore(c)
  \/ \E c \in Conns : Resolve(c)
  \/ \E c \in Conns, rssi \in NetRssi, snr \in NetSnr,
        rangeRoll \in BOOLEAN, statRoll \in BOOLEAN :
       Eval(c, rssi, snr, MaxDelay, SnrProb, rangeRoll, statRoll)
  \/ \E c \in Conns : LogDrop(c)
  \/ \E c \in Conns : Admit(c)
  \/ \E c \in Conns, ok \in BOOLEAN : DeliverToRadio(c, ok)
  \/ \E c \in Conns : DecLoad(c)
  \/ \E c \in Conns : DecStore(c)
  \/ Tick

SpecNet == InitNet /\ [][NextNet]_vars

\* the radios of node d
RadiosOf(d) == {r \in Radios : radio[r].node_id = d}

\* C34: when send_with_ack to a unicast destination d has returned True, a
\* receive call of node d has returned a data frame of the calling node with
\* the identifier of the call.
AckSoundness ==
  \A c \in Radios :
    ( /\ Returned(c) /\ radio[c].op.name = "send_with_ack"
      /\ radio[c].ret = "True"
      /\ radio[c].op.destination \notin {BROADCAST, None} )
    => \E r \in RadiosOf(radio[c].op.destination) :
         \E f \in radio[r].heard :
           /\ ~HasAckBit(f.flags)
           /\ f.node = radio[c].node_id
           /\ f.identifier = radio[c].identifier

\* ------------------------------------------------------------ C35
\* radio c takes what is waiting in its socket in this step
Takes(c) == Len(radio'[c].rxbuf) < Len(radio[c].rxbuf)

\* C35: every frame a radio takes from its socket is the one a receive call
\* of the application returns, or the ACK with the packet's identifier that
\* ends a window of send_with_ack with True.
NoSilentLoss ==
  [][\A c \in Radios : Takes(c) =>
       \A i \in DOMAIN radio[c].rxbuf :
         LET f == radio[c].rxbuf[i]
         IN  \/ /\ radio[c].rpc = "idle"
                /\ radio'[c].op.name = "receive"
                /\ radio'[c].ret = "bytearray"
                /\ radio'[c].op.got = f
             \/ /\ radio[c].rpc = "swa_recv"
                /\ HasAckBit(f.flags)
                /\ f.identifier = radio[c].identifier
                /\ radio'[c].ret = "True"]_vars

====
